---------------------------- MODULE Spec2Model ----------------------------
(***************************************************************************)
(* Model of the news pipeline of asianloopnews:                            *)
(*   scripts/fetch-news.mjs  (curated revision, lines 1-147; safe-mode     *)
(*   revision, lines 149-388), the widget public/news-modal.js (lines       *)
(*   1-307) and collect() of the batched strict revision                    *)
(*   (unnamed/part_000, lines 1-146).                                       *)
(*                                                                         *)
(* Text is modelled as a sequence of tokens.  A token is either one        *)
(* whitespace character (" " or "\t") or one maximal run of word           *)
(* characters (a word).  Lengths (slice) are counted in tokens.  A regular *)
(* expression is a set of alternatives; an alternative is a phrase of      *)
(* tokens with a flag for the \b anchor on each side.                      *)
(***************************************************************************)
EXTENDS Integers, Sequences, FiniteSets, TLC

VARIABLES
  pc,        \* position of main(): idle, loop, await, mkdir, open, write, debug,
             \* done (exit 0), failed (exit 1 after an I/O error), aborted (exit 1 in the fetch phase)
  run,       \* number of invocations of the script started so far
  i,         \* loop index of main's batch loop (0-based, as in the code)
  req,       \* per endpoint: "idle", "inflight", "ok", "failed"
  res,       \* per endpoint: what parser.parseURL(u) settled with (a feed or a rejection)
  order,     \* endpoints of the current batch in the order their requests settled
  feeds,     \* main's accumulator `feeds`
  sent,      \* history: per endpoint, the requests issued to it in the current run
  ranked,    \* dedupeSortCap's `out` after the sort, _score still attached
  items,     \* main's `items` (what goes into the payload)
  yielded,   \* history: items.length at the test of fetch-news.mjs:124
  payload,   \* serialised payload being written to OUT_FILE
  outFile,   \* content of public/news.latest.json: Absent or a sequence of chunks
  observed,  \* what the widget's last fetch of the endpoint saw
  prior,     \* history: items of the record in OUT_FILE when the run started
  exitCode,  \* exit status of the last invocation: -1 while it runs, else 0 or 1
  logged,    \* the error console.error printed in the last invocation, "none" if none
  arg,       \* input of the pure-function specifications
  ret,       \* result of the pure-function specifications
  state,     \* the widget's `state` object (news-modal.js:18-23)
  els,       \* the widget's DOM: classes of modal and backdrop, body, list, Load more
  timers,    \* the widget's pending callbacks: hide timers, animation frames, auto-show timer
  storage,   \* localStorage[al_news_snooze_until] against now(): "none", "past", "future"
  page       \* the page load: its URL, the position of the DOMContentLoaded handler,
             \* and history (outcome of the fetch, last of open/close called, open(false) calls)

vars == <<pc, run, i, req, res, order, feeds, sent, ranked, items, yielded, payload,
          outFile, observed, prior, exitCode, logged, arg, ret,
          state, els, timers, storage, page>>

-----------------------------------------------------------------------------
(* Bounds of the model *)

\* longest title, in tokens, that the pure-function specification enumerates
MaxTitleLen == 2
\* longest contentSnippet, in tokens, that the pure-function specification enumerates
MaxSumLen == 2
\* number of invocations of the script in one behaviour
MaxRuns == 3
\* number of configured endpoints (CURATED_RSS.length is 6 in the source)
NumEndpoints == 3

\* news-modal.js:121, :209, :258: the most stories the widget keeps and shows
ShowCap == 30
\* news-modal.js:121: stories added by one click on Load more
MoreStep == 6
\* news-modal.js:22, :262: stories shown before any click (the top story and five rows)
InitialVisible == 6

-----------------------------------------------------------------------------
(* Strings as token sequences *)

Spaces == {" ", "\t"}
Words == {"meter", "flow", "Bitcoin", "water", "parameter", "fiscal", "news"}
Vocab == Spaces \cup Words

IsSpace(tok) == tok \in Spaces

\* no two words are adjacent: every string has exactly one tokenisation
WellFormed(s) == \A k \in 1..(Len(s) - 1) : IsSpace(s[k]) \/ IsSpace(s[k + 1])

Texts(n) == {s \in UNION {[1..k -> Vocab] : k \in 0..n} : WellFormed(s)}

Min(a, b) == IF a <= b THEN a ELSE b

\* String.prototype.toLowerCase, token by token
LowerTok(tok) ==
  CASE tok = "Bitcoin" -> "bitcoin"
    [] tok = "Flow"    -> "flow"
    [] tok = "Meter"   -> "meter"
    [] tok = "OIML"    -> "oiml"
    [] OTHER           -> tok

toLowerCase(s) == [k \in 1..Len(s) |-> LowerTok(s[k])]

\* String.prototype.slice(0, n)
slice(s, n) == SubSeq(s, 1, Min(n, Len(s)))

\* String.prototype.trim
RECURSIVE TrimLeft(_)
TrimLeft(s) == IF s # <<>> /\ IsSpace(Head(s)) THEN TrimLeft(Tail(s)) ELSE s

RECURSIVE TrimRight(_)
TrimRight(s) ==
  IF s # <<>> /\ IsSpace(s[Len(s)]) THEN TrimRight(SubSeq(s, 1, Len(s) - 1)) ELSE s

trim(s) == TrimRight(TrimLeft(s))

\* s.replace(/\s+/g, " "): every maximal whitespace run becomes one " "
RECURSIVE collapse(_)
collapse(s) ==
  IF s = <<>> THEN <<>>
  ELSE IF IsSpace(Head(s))
       THEN <<" ">> \o collapse(TrimLeft(s))
       ELSE <<Head(s)>> \o collapse(Tail(s))

-----------------------------------------------------------------------------
(* Regular expressions *)

\* pattern element: one or more whitespace characters (\s+)
WS == "\\s+"

\* an alternative anchored by \b on both sides / on neither side
B(ph) == [l |-> TRUE, ph |-> ph, r |-> TRUE]
U(ph) == [l |-> FALSE, ph |-> ph, r |-> FALSE]

\* which words of the vocabulary properly contain a lexicon word
PrefixOf == {<<"meters", "meter">>, <<"metering", "meter">>, <<"flowmeter", "flow">>}
SuffixOf == {<<"parameter", "meter">>, <<"flowmeter", "meter">>}
InfixOf == {<<"galactic", "lact">>}

StartsWith(tok, w) == tok = w \/ <<tok, w>> \in PrefixOf
EndsWith(tok, w) == tok = w \/ <<tok, w>> \in SuffixOf
Includes(tok, w) == StartsWith(tok, w) \/ EndsWith(tok, w) \/ <<tok, w>> \in InfixOf

\* element j of pat against token tok: the first element may begin inside a word
\* unless \b anchors it, the last may end inside a word unless \b anchors it
ElemMatch(tok, pat, j) ==
  LET n == Len(pat.ph)
      w == pat.ph[j]
      openL == (j = 1) /\ ~pat.l
      openR == (j = n) /\ ~pat.r
  IN  CASE openL /\ openR -> Includes(tok, w)
        [] openL /\ ~openR -> EndsWith(tok, w)
        [] ~openL /\ openR -> StartsWith(tok, w)
        [] OTHER -> tok = w

RECURSIVE MatchFrom(_, _, _, _)
MatchFrom(t, k, pat, j) ==
  IF j > Len(pat.ph) THEN TRUE
  ELSE IF k > Len(t) THEN FALSE
  ELSE IF pat.ph[j] = WS
       THEN IsSpace(t[k])
            /\ IF k < Len(t) /\ IsSpace(t[k + 1])
               THEN MatchFrom(t, k + 1, pat, j)
               ELSE MatchFrom(t, k + 1, pat, j + 1)
       ELSE ElemMatch(t[k], pat, j) /\ MatchFrom(t, k + 1, pat, j + 1)

\* RegExp.prototype.test
Test(rx, t) == \E pat \in rx : \E k \in 1..Len(t) : MatchFrom(t, k, pat, 1)

BAll(phrases) == {B(ph) : ph \in phrases}
UAll(phrases) == {U(ph) : ph \in phrases}

UtilityWords == {"electric", "electricity", "power", "smart", "water"}

\* fetch-news.mjs:38
RX_KEEP ==
  BAll({ <<"custody", " ", "transfer">>, <<"fiscal">>, <<"mpms">>, <<"oiml">>,
         <<"r-117">>, <<"r117">>, <<"iso17025">>, <<"iso", WS, "17025">>,
         <<"meter">>, <<"metering">>, <<"meters">>,
         <<"flow", " ", "meter">>, <<"flowmeter">>,
         <<"prover">>, <<"meter", " ", "proving">>, <<"pipe", " ", "prover">>,
         <<"lact">>, <<"lease", " ", "automatic", " ", "custody", " ", "transfer">>,
         <<"metering", " ", "skid">>, <<"metering", " ", "station">>,
         <<"ultrasonic">>, <<"coriolis">>, <<"turbine", " ", "meter">>,
         <<"orifice", " ", "plate">>, <<"orifice", " ", "meter">>,
         <<"flow", " ", "computer">>, <<"gas", " ", "chromatograph">>,
         <<"calibration">>, <<"metrology">> })

\* fetch-news.mjs:39
RX_DROP ==
  BAll({ <<"etf">>, <<"crypto">>, <<"bitcoin">>, <<"token">>, <<"security">>,
         <<"securities">>, <<"custody", " ", "bank">>, <<"asset", " ", "management">>,
         <<"child", " ", "custody">>, <<"police", " ", "custody">>,
         <<"detention">>, <<"crime">> })

\* fetch-news.mjs:40
RX_UTILITY ==
  BAll({<<w, WS, "meter">> : w \in UtilityWords} \cup {<<w, WS, "meters">> : w \in UtilityWords})

\* fetch-news.mjs:48, 49, 50: the three boost tests of relevanceScore
RX_BOOST_STD ==
  UAll({ <<"custody", " ", "transfer">>, <<"fiscal">>, <<"mpms">>, <<"oiml">>,
         <<"iso17025">>, <<"iso", WS, "17025">> })
RX_BOOST_PROVING == UAll({ <<"prover">>, <<"meter", " ", "proving">>, <<"lact">> })
RX_BOOST_TECH ==
  UAll({ <<"ultrasonic">>, <<"coriolis">>, <<"turbine">>, <<"orifice">>,
         <<"flow", " ", "computer">>, <<"gas", " ", "chromatograph">> })

\* title + " " + summary, lower-cased (fetch-news.mjs:43 and :285)
JoinedText(title, summary) == toLowerCase(title \o <<" ">> \o summary)

\* fetch-news.mjs:42-52
\* relevanceScore without its RX_KEEP test: only the exclusion lexicon filters
relevanceScoreNoKeep(title, summary) ==
  LET t == JoinedText(title, summary)
  IN  IF Test(RX_DROP, t) THEN -9999
      ELSE 1 + (IF Test(RX_UTILITY, t) THEN -2 ELSE 0)
             + (IF Test(RX_BOOST_STD, t) THEN 4 ELSE 0)
             + (IF Test(RX_BOOST_PROVING, t) THEN 2 ELSE 0)
             + (IF Test(RX_BOOST_TECH, t) THEN 1 ELSE 0)

\* relevanceScore with the exclusion lexicon consulted only after the inclusion
\* lexicon has failed
relevanceScoreKeepFirst(title, summary) ==
  LET t == JoinedText(title, summary)
  IN  IF Test(RX_KEEP, t)
      THEN 1 + (IF Test(RX_UTILITY, t) THEN -2 ELSE 0)
             + (IF Test(RX_BOOST_STD, t) THEN 4 ELSE 0)
             + (IF Test(RX_BOOST_PROVING, t) THEN 2 ELSE 0)
             + (IF Test(RX_BOOST_TECH, t) THEN 1 ELSE 0)
      ELSE IF Test(RX_DROP, t) THEN -9999 ELSE -999

relevanceScore(title, summary) ==
  LET t == JoinedText(title, summary)
  IN  IF Test(RX_DROP, t) THEN -9999
      ELSE IF ~Test(RX_KEEP, t) THEN -999
      ELSE 1 + (IF Test(RX_UTILITY, t) THEN -2 ELSE 0)
             + (IF Test(RX_BOOST_STD, t) THEN 4 ELSE 0)
             + (IF Test(RX_BOOST_PROVING, t) THEN 2 ELSE 0)
             + (IF Test(RX_BOOST_TECH, t) THEN 1 ELSE 0)


\* the safe-mode revision's lexicons, fetch-news.mjs:275
RX_MEAS ==
  BAll({ <<"flow", " ", "meter">>, <<"flowmeter">>, <<"meter">>, <<"metering">>,
         <<"meters">>, <<"prover">>, <<"lact">>,
         <<"metering", " ", "skid">>, <<"metering", " ", "station">> })
  \cup
  UAll({ <<"meter", " ", "proving">>, <<"pipe", " ", "prover">>,
         <<"lease", " ", "automatic", " ", "custody", " ", "transfer">>,
         <<"ultrasonic", " ", "flow">>, <<"ultrasonic", " ", "meter">>,
         <<"ultrasonic", " ", "measurement">>,
         <<"coriolis", " ", "flow">>, <<"coriolis", " ", "meter">>,
         <<"coriolis", " ", "measurement">>,
         <<"turbine", " ", "meter">>, <<"orifice", " ", "plate">>,
         <<"orifice", " ", "meter">>, <<"flow", " ", "computer">>,
         <<"gas", " ", "chromatograph">>, <<"calibration", " ", "lab">>,
         <<"metrology">> })

\* fetch-news.mjs:277
RX_BAD_UTILITY == RX_UTILITY

\* fetch-news.mjs:279
RX_CTX_STRONG ==
  BAll({ <<"custody", " ", "transfer">>, <<"fiscal">>, <<"mpms">>,
         <<"iso17025">>, <<"iso", WS, "17025">> })
  \cup UAll({ <<"oiml">>, <<"r-117">>, <<"r117">> })

\* fetch-news.mjs:280
RX_CTX_WEAK ==
  BAll({ <<"lng">>, <<"oil">>, <<"gas">>, <<"terminal">>, <<"pipeline">>,
         <<"proving">>, <<"calibration">>, <<"traceability">>,
         <<"traceabilities">>, <<"uncertainty">> })

\* fetch-news.mjs:282
RX_BAD == RX_DROP

\* fetch-news.mjs:294, 295, 296: the boost tests of scoreText
RX_SAFE_CUSTODY == UAll({ <<"custody", " ", "transfer">> })
RX_SAFE_PROVING == UAll({ <<"meter", " ", "proving">>, <<"pipe", " ", "prover">>, <<"lact">> })

\* fetch-news.mjs:162
MIN_SCORE == 0

\* scoreText of a strict configuration: a text without any context term is out
scoreTextStrict(title, summary) ==
  LET t == JoinedText(title, summary)
  IN  IF ~Test(RX_MEAS, t) THEN -999
      ELSE IF Test(RX_BAD, t) THEN -9999
      ELSE IF Test(RX_BAD_UTILITY, t) THEN -50
      ELSE IF ~Test(RX_CTX_STRONG, t) /\ ~Test(RX_CTX_WEAK, t) THEN -1
      ELSE (IF Test(RX_CTX_STRONG, t) THEN 6 ELSE 0)
           + (IF Test(RX_CTX_WEAK, t) THEN 3 ELSE 0)
           + (IF Test(RX_SAFE_CUSTODY, t) THEN 2 ELSE 0)
           + (IF Test(RX_SAFE_PROVING, t) THEN 2 ELSE 0)
           + (IF Test(RX_BOOST_TECH, t) THEN 1 ELSE 0)

\* fetch-news.mjs:284-299
scoreText(title, summary) ==
  LET t == JoinedText(title, summary)
  IN  IF ~Test(RX_MEAS, t) THEN -999
      ELSE IF Test(RX_BAD, t) THEN -9999
      ELSE IF Test(RX_BAD_UTILITY, t) THEN -50
      ELSE (IF Test(RX_CTX_STRONG, t) THEN 6 ELSE 0)
           + (IF Test(RX_CTX_WEAK, t) THEN 3 ELSE 0)
           + (IF Test(RX_SAFE_CUSTODY, t) THEN 2 ELSE 0)
           + (IF Test(RX_SAFE_PROVING, t) THEN 2 ELSE 0)
           + (IF Test(RX_BOOST_TECH, t) THEN 1 ELSE 0)

\* fetch-news.mjs:84, 85, 86, 87: the keyword groups of guessCategory
RX_CAT_STANDARDS ==
  BAll({<<"mpms">>, <<"oiml">>, <<"iso17025">>, <<"iso", WS, "17025">>})
  \cup UAll({<<"r-117">>})
RX_CAT_TECHNOLOGY ==
  BAll({<<"prover">>, <<"lact">>, <<"ultrasonic">>, <<"coriolis">>,
        <<"turbine">>, <<"orifice">>, <<"flowmeter">>,
        <<"flow", " ", "computer">>, <<"gas", " ", "chromatograph">>})
RX_CAT_PROJECTS ==
  BAll({<<"contract">>, <<"awarded">>, <<"terminal">>, <<"project">>, <<"tender">>})
RX_CAT_RESEARCH == BAll({<<"calibration">>, <<"metrology">>, <<"lab">>})

\* guessCategory with its tests in the reverse order
guessCategoryLastWins(title) ==
  LET t == toLowerCase(title)
  IN  IF Test(RX_CAT_RESEARCH, t) THEN "Research"
      ELSE IF Test(RX_CAT_PROJECTS, t) THEN "Projects"
      ELSE IF Test(RX_CAT_TECHNOLOGY, t) THEN "Technology"
      ELSE IF Test(RX_CAT_STANDARDS, t) THEN "Standards"
      ELSE "Update"

\* fetch-news.mjs:82-89; the title is lower-cased first
guessCategory(title) ==
  LET t == toLowerCase(title)
  IN  IF Test(RX_CAT_STANDARDS, t) THEN "Standards"
      ELSE IF Test(RX_CAT_TECHNOLOGY, t) THEN "Technology"
      ELSE IF Test(RX_CAT_PROJECTS, t) THEN "Projects"
      ELSE IF Test(RX_CAT_RESEARCH, t) THEN "Research"
      ELSE "Update"

-----------------------------------------------------------------------------
(* URLs: a link is a sequence of tokens <<scheme, host, path, "?url=", ...>> *)

Schemes == {"https://"}
HostTokens ==
  {"www.a.com", "a.com", "b.com", "WWW.A.COM", "news.google.com", "realsite.com",
   "news.example.com", "news.google.com.evil.net"}
PathTokens == {"/", "/p", "/q", "/rss", "/a"}
UrlParam == "?url="

\* the URL parser lower-cases the host
LowerHost(h) == IF h = "WWW.A.COM" THEN "www.a.com" ELSE h

\* new URL(s): throws unless s has a scheme and a host; an absent path is "/"
URLParses(link) ==
  /\ Len(link) >= 2
  /\ link[1] \in Schemes
  /\ link[2] \in HostTokens
  /\ Len(link) >= 3 => (link[3] \in PathTokens \/ link[3] = UrlParam)

URLhostname(link) == LowerHost(link[2])
URLpathname(link) == IF Len(link) >= 3 /\ link[3] \in PathTokens THEN link[3] ELSE "/"

\* position of the url query parameter, 0 when the link has none
UrlParamAt(link) ==
  IF \E k \in 1..Len(link) : link[k] = UrlParam
  THEN CHOOSE k \in 1..Len(link) :
         link[k] = UrlParam /\ \A m \in 1..(k - 1) : link[m] # UrlParam
  ELSE 0

\* h.replace(/^www\./, "")
StripWww(h) == IF h = "www.a.com" THEN "a.com" ELSE h

\* hostOf handing back its argument when the URL does not parse
hostOfRaw(link) == IF URLParses(link) THEN <<StripWww(URLhostname(link))>> ELSE link

\* fetch-news.mjs:35 (and :261): "" is modelled as <<>>
hostOf(link) == IF URLParses(link) THEN <<StripWww(URLhostname(link))>> ELSE <<>>

\* u.hostname.includes("news.google.com")
IncludesGoogleNews(h) == h \in {"news.google.com", "news.google.com.evil.net"}

\* fetch-news.mjs:252-260
unwrapGoogle(href) ==
  IF URLParses(href) /\ IncludesGoogleNews(URLhostname(href)) /\ UrlParamAt(href) > 0
  THEN SubSeq(href, UrlParamAt(href) + 1, Len(href))
  ELSE href

-----------------------------------------------------------------------------
(* Dates: a date string is valid (an instant, an integer), unparsable, or "" *)

NoDate == [k |-> "none", t |-> 0]
BadDate == [k |-> "bad", t |-> 0]
Iso(n) == [k |-> "iso", t |-> n]

\* it.isoDate || it.pubDate || new Date().toISOString()   (fetch-news.mjs:72)
publishedAtOf(it, now) ==
  IF it.isoDate.k # "none" THEN it.isoDate
  ELSE IF it.pubDate.k # "none" THEN it.pubDate
  ELSE Iso(now)

\* new Date(s) is Invalid Date (NaN) for an unparsable string
IsNaN(d) == d.k # "iso"

\* fetch-news.mjs:36
NORM_CAP == 3
norm(s) == slice(collapse(toLowerCase(trim(s))), NORM_CAP)

\* fetch-news.mjs:73
SUMMARY_CAP == 3

\* (it.contentSnippet || it.content || "").replace(/\s+/g," ").trim()  (fetch-news.mjs:65)
sumOf(it) ==
  trim(collapse(IF it.contentSnippet # <<>> THEN it.contentSnippet ELSE it.content))

NoTitle == <<"(no feed title)">>

\* fetch-news.mjs:62-76: the item built from one entry of feed f, score attached
itemOf(f, it, now, score) ==
  [ title |-> it.title,
    url |-> it.link,
    sourceName |-> IF hostOf(it.link) # <<>> THEN hostOf(it.link)
                   ELSE IF f.title # NoTitle THEN f.title ELSE <<"News">>,
    publishedAt |-> publishedAtOf(it, now),
    summary |-> slice(sumOf(it), SUMMARY_CAP),
    category |-> guessCategory(it.title),
    _score |-> score ]

\* fetch-news.mjs:62-77: the inner loop over the entries of one feed
RECURSIVE itemsOfFeed(_, _, _)
itemsOfFeed(f, its, now) ==
  IF its = <<>> THEN <<>>
  ELSE LET it == Head(its)
           score == relevanceScore(it.title, sumOf(it))
       IN  (IF score < 0 THEN <<>> ELSE <<itemOf(f, it, now, score)>>)
           \o itemsOfFeed(f, Tail(its), now)

\* fetch-news.mjs:59-80
RECURSIVE itemsFromFeeds(_, _)
itemsFromFeeds(fs, now) ==
  IF fs = <<>> THEN <<>>
  ELSE itemsOfFeed(Head(fs), Head(fs).items, now) \o itemsFromFeeds(Tail(fs), now)

\* fetch-news.mjs:308-330, the safe-mode revision
RECURSIVE itemsOfFeedSafe(_, _, _)
itemsOfFeedSafe(f, its, now) ==
  IF its = <<>> THEN <<>>
  ELSE LET it == [Head(its) EXCEPT !.link = unwrapGoogle(@)]
           score == scoreText(it.title, sumOf(it))
       IN  (IF score < MIN_SCORE THEN <<>> ELSE <<itemOf(f, it, now, score)>>)
           \o itemsOfFeedSafe(f, Tail(its), now)

RECURSIVE itemsFromFeedsSafe(_, _)
itemsFromFeedsSafe(fs, now) ==
  IF fs = <<>> THEN <<>>
  ELSE itemsOfFeedSafe(Head(fs), Head(fs).items, now) \o itemsFromFeedsSafe(Tail(fs), now)


-----------------------------------------------------------------------------
(* dedupeSortCap *)

\* fetch-news.mjs:10 (30 in the source; scaled so that the sample feeds exceed it)
MAX_ITEMS == 2

\* fetch-news.mjs:95-96
keyOf(it) ==
  IF URLParses(it.url) THEN norm(it.title) \o <<"|", URLpathname(it.url)>>
  ELSE norm(it.title)

\* fetch-news.mjs:92-99: the loop, with `seen` as a set of keys
RECURSIVE dedupeLoop(_, _)
dedupeLoop(raw, seen) ==
  IF raw = <<>> THEN <<>>
  ELSE LET it == Head(raw)
       IN  IF it.title = <<>> \/ it.url = <<>> THEN dedupeLoop(Tail(raw), seen)
           ELSE IF keyOf(it) \in seen THEN dedupeLoop(Tail(raw), seen)
           ELSE <<it>> \o dedupeLoop(Tail(raw), seen \cup {keyOf(it)})

\* the loop of dedupeSortCap without its seen-set test
dedupeNoSeen(raw) == SelectSeq(raw, LAMBDA it : it.title # <<>> /\ it.url # <<>>)

\* the loop of dedupeSortCap without its test of title and url
RECURSIVE dedupeLoopKeepEmpty(_, _)
dedupeLoopKeepEmpty(raw, seen) ==
  IF raw = <<>> THEN <<>>
  ELSE LET it == Head(raw)
       IN  IF keyOf(it) \in seen THEN dedupeLoopKeepEmpty(Tail(raw), seen)
           ELSE <<it>> \o dedupeLoopKeepEmpty(Tail(raw), seen \cup {keyOf(it)})

dedupeKeepEmpty(raw) == dedupeLoopKeepEmpty(raw, {})

\* a dedup that keeps, of the candidates with one key, the one that comes last
dedupeLastWins(raw) ==
  LET rev(q) == [k \in 1..Len(q) |-> q[Len(q) + 1 - k]]
  IN  rev(dedupeLoop(rev(raw), {}))

dedupe(raw) == dedupeLoop(raw, {})

\* the comparator of fetch-news.mjs:100; a NaN result is taken as +0 by sort
compareFn(a, b) ==
  IF b._score - a._score # 0 THEN b._score - a._score
  ELSE IF IsNaN(a.publishedAt) \/ IsNaN(b.publishedAt) THEN 0
  ELSE b.publishedAt.t - a.publishedAt.t

\* ECMAScript: a consistent comparator's "equal" relation is transitive
ConsistentOn(list) ==
  \A a, b, c \in 1..Len(list) :
    (compareFn(list[a], list[b]) = 0 /\ compareFn(list[b], list[c]) = 0)
      => compareFn(list[a], list[c]) = 0

\* stable insertion: x goes before the first element that must follow it
RECURSIVE InsertSorted(_, _)
InsertSorted(srt, x) ==
  IF srt = <<>> THEN <<x>>
  ELSE IF compareFn(Head(srt), x) > 0 THEN <<x>> \o srt
  ELSE <<Head(srt)>> \o InsertSorted(Tail(srt), x)

RECURSIVE StableSort(_)
StableSort(list) ==
  IF list = <<>> THEN <<>>
  ELSE InsertSorted(StableSort(SubSeq(list, 1, Len(list) - 1)), list[Len(list)])

Orderings(list) ==
  LET n == Len(list)
  IN  { [k \in 1..n |-> list[p[k]]] :
          p \in {q \in [1..n -> 1..n] : \A x, y \in 1..n : x # y => q[x] # q[y]} }

\* Array.prototype.sort (fetch-news.mjs:100): stable for a consistent comparator,
\* implementation-defined order otherwise
sortOutcomes(list) ==
  IF ConsistentOn(list) THEN {StableSort(list)} ELSE Orderings(list)

\* out.slice(0, MAX_ITEMS)   (fetch-news.mjs:101)
\* dedupeSortCap without its slice
capNone(srt) == srt

cap(srt) == slice(srt, MAX_ITEMS)

\* .map(({_score, ...rest}) => rest)   (fetch-news.mjs:101)
stripScore(srt) ==
  [k \in 1..Len(srt) |->
     [ title |-> srt[k].title, url |-> srt[k].url, sourceName |-> srt[k].sourceName,
       publishedAt |-> srt[k].publishedAt, summary |-> srt[k].summary,
       category |-> srt[k].category ]]

-----------------------------------------------------------------------------
(* The output file: JSON text as a sequence of chunks *)

Absent == [exists |-> FALSE, data |-> <<>>]

\* JSON.stringify(payload, null, 2)   (fetch-news.mjs:137)
stringify(p) ==
  <<[c |-> "open"], [c |-> "updatedAt", v |-> p.updatedAt]>>
  \o [k \in 1..Len(p.items) |-> [c |-> "item", v |-> p.items[k]]]
  \o <<[c |-> "meta", v |-> p.meta], [c |-> "close"]>>

\* JSON.parse succeeds on a complete text only
JSONparses(data) ==
  /\ Len(data) >= 4
  /\ data[1].c = "open"
  /\ data[2].c = "updatedAt"
  /\ data[Len(data) - 1].c = "meta"
  /\ data[Len(data)].c = "close"

\* json.items of a complete text
itemsOfJSON(data) == [k \in 1..(Len(data) - 4) |-> data[k + 2].v]

\* fetch-news.mjs:104-110
readPreviousItems(file) ==
  IF file.exists /\ JSONparses(file.data) THEN itemsOfJSON(file.data) ELSE <<>>

\* fetch-news.mjs:124-127
\* main without the fallback of fetch-news.mjs:122-125
keepPreviousNever(fresh, prev) == fresh

keepPrevious(fresh, prev) == IF fresh = <<>> /\ prev # <<>> THEN prev ELSE fresh


-----------------------------------------------------------------------------
(* What the endpoints can deliver *)

Entry(title, link, snippet, iso, pub) ==
  [ title |-> title, link |-> link, contentSnippet |-> snippet, content |-> <<>>,
    isoDate |-> iso, pubDate |-> pub ]

LinkA == <<"https://", "www.a.com", "/p">>
LinkB == <<"https://", "b.com", "/p">>
LinkQ == <<"https://", "a.com", "/q">>
LinkRel == <<"/p">>

eFlow == Entry(<<"flow", " ", "meter">>, LinkA, <<"news">>, Iso(5), Iso(5))
eDup == Entry(<<"Flow", "\t", "meter", " ">>, LinkB, <<"news">>, Iso(9), Iso(9))
eBit == Entry(<<"Bitcoin", " ", "meter">>, LinkQ, <<"news">>, Iso(7), Iso(7))
eLong == Entry(<<"news">>, LinkQ, <<"news", "\t", " ", "news", " ", "fiscal">>, Iso(2), Iso(2))
eNews == Entry(<<"news">>, LinkA, <<"news">>, Iso(8), Iso(8))
eBadDate == Entry(<<"meter">>, LinkQ, <<"news">>, NoDate, BadDate)
eNoTitle == Entry(<<>>, LinkA, <<"meter">>, Iso(6), Iso(6))
eNoLink == Entry(<<"meter">>, <<>>, <<"flow">>, Iso(6), Iso(6))
eNow == Entry(<<"parameter", " ", "meters">>, LinkRel, <<"news">>, NoDate, NoDate)

SampleEntries ==
  {eFlow, eDup, eBit, eLong, eNews, eBadDate, eNoTitle, eNoLink, eNow}

Feed(title, its) == [rejected |-> FALSE, title |-> title, items |-> its]
Rejected == [rejected |-> TRUE, title |-> NoTitle, items |-> <<>>]
Unsettled == [rejected |-> TRUE, title |-> <<"(pending)">>, items |-> <<>>]

\* the feeds each endpoint may answer with (besides failing)
FeedChoices ==
  << { Feed(<<"A">>, <<eFlow, eBit>>), Feed(NoTitle, <<eNow, eNoTitle, eNews>>) },
     { Feed(<<"B">>, <<eDup, eLong>>) },
     { Feed(<<"C">>, <<eBadDate, eNoLink>>), Feed(<<"C">>, <<eBit, eNoTitle>>) } >>

Endpoints == 1..NumEndpoints
FeedsOf(e) ==
  IF e <= Len(FeedChoices) THEN FeedChoices[e] ELSE {Feed(<<"D">>, <<eBit, eNews>>)}

\* fetch-news.mjs:11 (8 in the source; scaled with NumEndpoints so that a run has
\* more than one batch)
CONCURRENCY == 2

\* batches that overlap: each starts at the last endpoint of the batch before it
batchAtOverlap(k) == {e \in Endpoints : k <= e /\ e <= k + CONCURRENCY}

\* CURATED_RSS.slice(i, i + CONCURRENCY)   (fetch-news.mjs:116)
batchAt(k) == {e \in Endpoints : k < e /\ e <= k + CONCURRENCY}

\* Promise.all resolves once every promise of the batch has settled (fetch-news.mjs:55)
\* a batch taken as complete as soon as one of its requests has settled
anySettled(urls, r) == \E e \in urls : r[e] \in {"ok", "failed"}

\* a batch taken as complete only when every request has fulfilled: a request that
\* timed out is waited on for ever
allFulfilled(urls, r) == \A e \in urls : r[e] = "ok"

allSettled(urls, r) == \A e \in urls : r[e] \in {"ok", "failed"}

\* the endpoints of a set, ascending
RECURSIVE ascending(_)
ascending(S) ==
  IF S = {} THEN <<>>
  ELSE LET m == CHOOSE x \in S : \A y \in S : x <= y
       IN  <<m>> \o ascending(S \ {m})

\* parseBatch without the .catch(() => null): Promise.all rejects when a request fails
parseBatchNoCatch(urls, r, ord) ==
  [ rejected |-> \E e \in urls : r[e].rejected,
    got |-> SelectSeq([k \in 1..Len(ascending(urls)) |-> r[ascending(urls)[k]]],
                      LAMBDA f : ~f.rejected) ]

\* parseBatch gathering the feeds as the requests settle
parseBatchAsSettled(urls, r, ord) ==
  [ rejected |-> FALSE,
    got |-> SelectSeq([k \in 1..Len(ord) |-> r[ord[k]]], LAMBDA f : ~f.rejected) ]

\* fetch-news.mjs:54-57: every rejection is caught to null, Promise.all keeps the
\* order of urls (ord, the order of settling, is not used), falsy entries are dropped
parseBatch(urls, r, ord) ==
  [ rejected |-> FALSE,
    got |-> SelectSeq([k \in 1..Len(ascending(urls)) |-> r[ascending(urls)[k]]],
                      LAMBDA f : ~f.rejected) ]

\* new Date() during run n
Now(n) == 10 + n

-----------------------------------------------------------------------------
(* The curated script: main() *)

InitMain ==
  /\ pc = "idle"
  /\ run = 0
  /\ i = 0
  /\ req = [e \in Endpoints |-> "idle"]
  /\ res = [e \in Endpoints |-> Unsettled]
  /\ order = <<>>
  /\ feeds = <<>>
  /\ sent = [e \in Endpoints |-> 0]
  /\ ranked = <<>>
  /\ items = <<>>
  /\ yielded = 0
  /\ payload = <<>>
  /\ outFile = Absent
  /\ observed = "none"
  /\ prior = <<>>
  /\ exitCode = -1
  /\ logged = "none"

\* news-modal.js:18-23 (state.fresh is read only when CFG.requireFreshForAutoShow is
\* set, which news-modal.js:9 clears: it is left out)
state0 == [items |-> <<>>, openedManually |-> FALSE, visibleCount |-> InitialVisible]

\* news-modal.js:24, and :62-67 for the classes the modal and its backdrop are built with
els0 ==
  [ built |-> FALSE, hidden |-> TRUE, isOpen |-> FALSE, body |-> "blank", top |-> 0,
    hasList |-> FALSE, list |-> <<>>, btnMoreDisabled |-> FALSE, snoozeChecked |-> FALSE ]

\* a page that has loaded the script and has not yet fired DOMContentLoaded
InitPage(href, snooze) ==
  /\ state = state0
  /\ els = els0
  /\ timers = [hide |-> 0, raf |-> 0, auto |-> FALSE]
  /\ storage = snooze
  /\ page = [href |-> href, phase |-> "loading", fetched |-> "none",
             lastCall |-> "none", autoOpens |-> 0]

InitPipeline == InitMain /\ InitPage("plain", "none")

NoArg == [title |-> <<>>, contentSnippet |-> <<>>]
NoRet == [fn |-> "none", out |-> <<>>]

Init == InitPipeline /\ arg = NoArg /\ ret = NoRet

fetchVars == <<i, req, res, order, feeds, sent>>
rankVars == <<ranked, items, yielded, payload>>
widgetVars == <<state, els, timers, storage, page>>
envVars == <<observed, arg, ret, widgetVars>>
exitVars == <<exitCode, logged>>

\* a handler that logs the error and lets the process end with status 0
onRejectedLogOnly(err) == [code |-> 0, logged |-> err]

\* fetch-news.mjs:147: main().catch(err => { console.error(err); process.exit(1); })
onRejected(err) == [code |-> 1, logged |-> err]

\* main's promise rejects with err: the handler of fetch-news.mjs:147 runs
Rejects(err) ==
  /\ pc' = "failed"
  /\ exitCode' = onRejected(err).code
  /\ logged' = onRejected(err).logged

\* a meta object that counts the feeds that were fetched
metaOfFetched(its, fs) == [feedsTried |-> Len(fs), kept |-> Len(its)]

\* fetch-news.mjs:130-134: the meta object of the payload (fs, the feeds fetched,
\* is not used: feedsTried is CURATED_RSS.length)
metaOf(its, fs) == [feedsTried |-> NumEndpoints, kept |-> Len(its)]

\* a scheduled invocation starts (the previous one has exited)
StartRun ==
  /\ pc \in {"idle", "done", "failed", "aborted"}
  /\ run < MaxRuns
  /\ run' = run + 1
  /\ pc' = "loop"
  /\ i' = 0
  /\ feeds' = <<>>
  /\ req' = [e \in Endpoints |-> "idle"]
  /\ res' = [e \in Endpoints |-> Unsettled]
  /\ order' = <<>>
  /\ sent' = [e \in Endpoints |-> 0]
  /\ ranked' = <<>>
  /\ items' = <<>>
  /\ yielded' = 0
  /\ payload' = <<>>
  /\ prior' = readPreviousItems(outFile)
  /\ exitCode' = -1
  /\ logged' = "none"
  /\ UNCHANGED <<outFile, envVars>>

\* fetch-news.mjs:115-117 and :55: the loop test, the slice and urls.map(parseURL)
IssueBatch ==
  /\ pc = "loop"
  /\ i < NumEndpoints
  /\ req' = [e \in Endpoints |-> IF e \in batchAt(i) THEN "inflight" ELSE req[e]]
  /\ sent' = [e \in Endpoints |-> IF e \in batchAt(i) THEN sent[e] + 1 ELSE sent[e]]
  /\ order' = <<>>
  /\ pc' = "await"
  /\ UNCHANGED <<run, i, res, feeds, rankVars, outFile, prior, envVars, exitVars>>

\* one request settles: parser.parseURL(u) fulfils with a feed
SettleOk(e) ==
  /\ req[e] = "inflight"
  /\ \E f \in FeedsOf(e) : res' = [res EXCEPT ![e] = f]
  /\ req' = [req EXCEPT ![e] = "ok"]
  /\ order' = Append(order, e)
  /\ UNCHANGED <<pc, run, i, feeds, sent, rankVars, outFile, prior, envVars, exitVars>>

\* one request settles: timeout, malformed feed, rejected request
SettleFail(e) ==
  /\ req[e] = "inflight"
  /\ res' = [res EXCEPT ![e] = Rejected]
  /\ req' = [req EXCEPT ![e] = "failed"]
  /\ order' = Append(order, e)
  /\ UNCHANGED <<pc, run, i, feeds, sent, rankVars, outFile, prior, envVars, exitVars>>

\* fetch-news.mjs:117-118: await parseBatch(batch) resumes; feeds.push(...got); i += CONCURRENCY
BatchDone ==
  /\ pc = "await"
  /\ allSettled(batchAt(i), req)
  /\ LET b == parseBatch(batchAt(i), res, order)
     IN  IF b.rejected
         THEN /\ pc' = "aborted"
              /\ exitCode' = onRejected("fetch").code
              /\ logged' = onRejected("fetch").logged
              /\ UNCHANGED <<feeds, i>>
         ELSE /\ pc' = "loop"
              /\ feeds' = feeds \o b.got
              /\ i' = i + CONCURRENCY
              /\ UNCHANGED exitVars
  /\ UNCHANGED <<run, req, res, order, sent, rankVars, outFile, prior, envVars>>

\* fetch-news.mjs:120-134: itemsFromFeeds, dedupeSortCap, the empty-preserve rule, the payload
Process ==
  /\ pc = "loop"
  /\ i >= NumEndpoints
  /\ \E srt \in sortOutcomes(dedupe(itemsFromFeeds(feeds, Now(run)))) :
       LET its == keepPrevious(stripScore(cap(srt)), readPreviousItems(outFile))
       IN  /\ ranked' = srt
           /\ yielded' = Len(cap(srt))
           /\ items' = its
           /\ payload' = stringify([ updatedAt |-> Now(run), items |-> its,
                                     meta |-> metaOf(its, feeds) ])
  /\ pc' = "mkdir"
  /\ UNCHANGED <<run, fetchVars, outFile, prior, envVars, exitVars>>

\* fetch-news.mjs:136.  The locals of the fetch loop and dedupeSortCap's sorted array
\* are dead from here on and are cleared.
Mkdir ==
  /\ pc = "mkdir"
  /\ \/ pc' = "open" /\ UNCHANGED exitVars
     \/ Rejects("mkdir")
  /\ i' = 0
  /\ feeds' = <<>>
  /\ req' = [e \in Endpoints |-> "idle"]
  /\ res' = [e \in Endpoints |-> Unsettled]
  /\ order' = <<>>
  /\ ranked' = <<>>
  /\ UNCHANGED <<run, sent, items, yielded, payload, outFile, prior, envVars>>

\* fetch-news.mjs:137: fs.writeFile opens OUT_FILE with flag "w", which truncates it
WriteOpen ==
  /\ pc = "open"
  /\ \/ pc' = "write" /\ outFile' = [exists |-> TRUE, data |-> <<>>] /\ UNCHANGED exitVars
     \/ Rejects("open") /\ UNCHANGED outFile
  /\ UNCHANGED <<run, fetchVars, rankVars, prior, envVars>>

\* fetch-news.mjs:137: fs.writeFile writes the text into the opened file
WriteData ==
  /\ pc = "write"
  /\ outFile' = [exists |-> TRUE, data |-> payload]
  /\ pc' = "debug"
  /\ UNCHANGED <<run, fetchVars, rankVars, prior, envVars, exitVars>>

\* fetch-news.mjs:137: the write fails (disk full, I/O error); main rejects, exit 1
WriteFail ==
  /\ pc = "write"
  /\ Rejects("write")
  /\ UNCHANGED <<run, fetchVars, rankVars, outFile, prior, envVars>>

\* fetch-news.mjs:138-144: the debug note (write-only, its content is not modelled)
WriteDebug ==
  /\ pc = "debug"
  /\ \/ pc' = "done" /\ exitCode' = 0 /\ logged' = "none"
     \/ Rejects("debug")
  /\ UNCHANGED <<run, fetchVars, rankVars, outFile, prior, envVars>>

\* what a GET of the endpoint returns at this moment
bodyNow ==
  IF ~outFile.exists THEN "missing"
  ELSE IF JSONparses(outFile.data) THEN "record"
  ELSE "torn"

\* news-modal.js:256-257: the widget fetches the endpoint and parses the body
\* (once per page load, news-modal.js:294)
ReaderFetch ==
  /\ observed = "none"
  /\ observed' = bodyNow
  /\ UNCHANGED <<pc, run, fetchVars, rankVars, outFile, prior, exitVars, arg, ret,
                 widgetVars>>

Next ==
  \/ StartRun
  \/ IssueBatch
  \/ \E e \in Endpoints : SettleOk(e)
  \/ \E e \in Endpoints : SettleFail(e)
  \/ BatchDone
  \/ Process
  \/ Mkdir
  \/ WriteOpen
  \/ WriteData
  \/ WriteFail
  \/ WriteDebug

Spec == Init /\ [][Next]_vars

\* the script together with a page that loads the widget while the script runs
NextReader == Next \/ ReaderFetch

SpecReader == Init /\ [][NextReader]_vars

\* Process is synchronous code that always returns: it is enabled exactly here
ProcessEnabled == pc = "loop" /\ i >= NumEndpoints

\* Scheduling of one invocation: every request issued settles (the parser's timeout,
\* fetch-news.mjs:25), every awaited promise resumes main, every file operation
\* returns.  Nothing obliges the invoker to start another run.
\* WF_vars(Process) is written out with ProcessEnabled for ENABLED <<Process>>_vars
Fairness ==
  /\ WF_vars(IssueBatch)
  /\ \A e \in Endpoints : WF_vars(SettleOk(e) \/ SettleFail(e))
  /\ WF_vars(BatchDone)
  /\ ([]<>~ProcessEnabled) \/ ([]<><<Process>>_vars)
  /\ WF_vars(Mkdir)
  /\ WF_vars(WriteOpen)
  /\ WF_vars(WriteData \/ WriteFail)
  /\ WF_vars(WriteDebug)

SpecLive == Spec /\ Fairness

-----------------------------------------------------------------------------
(* The scorers as pure functions: every title and snippet over the vocabulary *)

InitScore ==
  /\ InitPipeline
  /\ arg \in {[title |-> t, contentSnippet |-> c] :
                t \in Texts(MaxTitleLen), c \in Texts(MaxSumLen)}
  /\ ret = NoRet

argFeed == Feed(<<"A">>, <<Entry(arg.title, LinkA, arg.contentSnippet, Iso(1), Iso(1))>>)

pipeVars == <<pc, run, fetchVars, rankVars, outFile, observed, prior, exitVars,
              widgetVars>>
\* the variables of the script
mainVars == <<pc, run, fetchVars, rankVars, outFile, prior, exitVars>>

\* fetch-news.mjs:59-80 on a feed holding the one entry
ApplyCurated ==
  /\ ret.fn = "none"
  /\ ret' = [fn |-> "curated", out |-> itemsFromFeeds(<<argFeed>>, Now(1))]
  /\ UNCHANGED <<pipeVars, arg>>

\* fetch-news.mjs:308-330 on a feed holding the one entry
ApplySafe ==
  /\ ret.fn = "none"
  /\ ret' = [fn |-> "safe", out |-> itemsFromFeedsSafe(<<argFeed>>, Now(1))]
  /\ UNCHANGED <<pipeVars, arg>>

NextScore == ApplyCurated \/ ApplySafe

SpecScore == InitScore /\ [][NextScore]_vars


-----------------------------------------------------------------------------
(* The pipeline (itemsFromFeeds, then dedupeSortCap) run twice on the same feeds *)

\* longest list of fetched feeds that the two-run specification enumerates
MaxFeeds == 2

AllFeeds == UNION {FeedsOf(e) : e \in 1..(Len(FeedChoices) + 1)}

FeedLists(n) == UNION {[1..k -> AllFeeds] : k \in 0..n}

InitTwice ==
  /\ InitPipeline
  /\ arg \in {[feeds |-> fs] : fs \in FeedLists(MaxFeeds)}
  /\ ret = NoRet

\* fetch-news.mjs:120-121 in a first invocation, at time Now(1)
FirstRun ==
  /\ ret.fn = "none"
  /\ LET raw == dedupe(itemsFromFeeds(arg.feeds, Now(1)))
     IN  \E srt \in sortOutcomes(raw) :
           ret' = [fn |-> "first", out |-> stripScore(cap(srt)), out2 |-> <<>>,
                   raw |-> raw, srt |-> srt]
  /\ UNCHANGED <<pipeVars, arg>>

\* fetch-news.mjs:120-121 in a second invocation of the same build, at time Now(2):
\* on the array the first invocation sorted, sort gives the same order again
SecondRun ==
  /\ ret.fn = "first"
  /\ LET raw == dedupe(itemsFromFeeds(arg.feeds, Now(2)))
     IN  \E srt \in (IF raw = ret.raw THEN {ret.srt} ELSE sortOutcomes(raw)) :
           ret' = [ret EXCEPT !.fn = "second", !.out2 = stripScore(cap(srt))]
  /\ UNCHANGED <<pipeVars, arg>>

NextTwice == FirstRun \/ SecondRun

SpecTwice == InitTwice /\ [][NextTwice]_vars

-----------------------------------------------------------------------------
(* Link normalisation as a pure function: every link of a bounded shape *)

\* how deep redirect wrappers are nested in the links that are enumerated
MaxWrap == 1

WrapperHosts == {"news.google.com", "news.example.com", "news.google.com.evil.net"}

\* plain links: scheme, host and path each present or absent
PlainLinks ==
  { sc \o h \o pa : sc \in {<<>>} \cup {<<x>> : x \in Schemes},
                    h \in {<<>>} \cup {<<x>> : x \in HostTokens},
                    pa \in {<<>>} \cup {<<x>> : x \in PathTokens} }

\* a wrapper around each link of L, with and without its scheme
Wrap(L) ==
  { sc \o <<h, "/rss", UrlParam>> \o d :
      sc \in {<<>>} \cup {<<x>> : x \in Schemes}, h \in WrapperHosts, d \in L }

RECURSIVE Links(_)
Links(n) == IF n = 0 THEN PlainLinks ELSE Links(n - 1) \cup Wrap(Links(n - 1))

InitLink ==
  /\ InitPipeline
  /\ arg \in {[link |-> l, feedTitle |-> ft] :
                l \in Links(MaxWrap), ft \in {<<"A">>, <<>>, NoTitle}}
  /\ ret = NoRet

\* a feed whose first entry carries the link and is followed by a sibling entry
linkFeed ==
  Feed(arg.feedTitle, <<Entry(<<"meter">>, arg.link, <<"news">>, Iso(1), Iso(1)), eFlow>>)

\* fetch-news.mjs:59-80 on that feed
ApplyLinkCurated ==
  /\ ret.fn = "none"
  /\ ret' = [fn |-> "linkCurated", out |-> itemsFromFeeds(<<linkFeed>>, Now(1))]
  /\ UNCHANGED <<pipeVars, arg>>

\* fetch-news.mjs:308-330 on that feed
ApplyLinkSafe ==
  /\ ret.fn = "none"
  /\ ret' = [fn |-> "linkSafe", out |-> itemsFromFeedsSafe(<<linkFeed>>, Now(1))]
  /\ UNCHANGED <<pipeVars, arg>>

NextLink == ApplyLinkCurated \/ ApplyLinkSafe

SpecLink == InitLink /\ [][NextLink]_vars

-----------------------------------------------------------------------------
(* guessCategory as a pure function: every title over a vocabulary of keywords *)

\* longest title, in tokens, that the category specification enumerates
MaxCatLen == 3

CatWords == {"mpms", "OIML", "lact", "galactic", "terminal", "lab", "news"}

CatTitles(n) ==
  {s \in UNION {[1..k -> Spaces \cup CatWords] : k \in 0..n} : WellFormed(s)}

InitCategory ==
  /\ InitPipeline
  /\ arg \in {[title |-> t] : t \in CatTitles(MaxCatLen)}
  /\ ret = NoRet

\* fetch-news.mjs:82-89
ApplyCategory ==
  /\ ret.fn = "none"
  /\ ret' = [fn |-> "category", out |-> guessCategory(arg.title)]
  /\ UNCHANGED <<pipeVars, arg>>

NextCategory == ApplyCategory

SpecCategory == InitCategory /\ [][NextCategory]_vars

-----------------------------------------------------------------------------
(* dedupeSortCap as a pure function: every short list of candidates that share or
   do not share a dedup key *)

\* longest candidate list the specification of dedupeSortCap enumerates
MaxRaw == 3

\* a candidate as itemsFromFeeds builds it, with a score of its own
Cand(title, link, score, n) ==
  itemOf(Feed(<<"A">>, <<>>), Entry(title, link, <<"news">>, Iso(n), Iso(n)), Now(1), score)

\* candidates with one key (same normalised title, same path) that differ in text,
\* host, score and timestamp; candidates with other keys; one without a title
Cands ==
  { Cand(<<"flow", " ", "meter">>, LinkA, 1, 5),
    Cand(<<"Flow", "\t", "meter">>, LinkB, 5, 9),
    Cand(<<"Flow", "\t", "meter">>, LinkB, 1, 3),
    Cand(<<"flow", " ", "meter">>, LinkQ, 1, 5),
    Cand(<<"meter">>, LinkQ, 3, 7),
    Cand(<<>>, LinkA, 5, 9) }

InitDedupe ==
  /\ InitPipeline
  /\ arg \in {[raw |-> r] : r \in UNION {[1..n -> Cands] : n \in 0..MaxRaw}}
  /\ ret = NoRet

\* fetch-news.mjs:91-102 on the list of arg
ApplyDedupeSortCap ==
  /\ ret.fn = "none"
  /\ \E srt \in sortOutcomes(dedupe(arg.raw)) :
       ret' = [fn |-> "dedupeSortCap", kept |-> dedupe(arg.raw),
               out |-> stripScore(cap(srt))]
  /\ UNCHANGED <<pipeVars, arg>>

NextDedupe == ApplyDedupeSortCap

SpecDedupe == InitDedupe /\ [][NextDedupe]_vars

-----------------------------------------------------------------------------
(* The safe-mode revision: collectAll and main, fetch-news.mjs:332-386 *)

\* urls1.length: the core, wide and site feeds (scaled)
NumPrimary == 3
\* FEEDS_FALLBACK.length (scaled)
NumFallback == 2
\* fetch-news.mjs:344: the fallback sweep runs below this many items (10 in the
\* source; scaled so that the sample feeds reach it)
LightBelow == 2
\* fetch-news.mjs:159 (45 in the source; scaled to the instants of the sample entries)
FRESH_DAYS == 4

Urls1 == 1..NumPrimary
FEEDS_FALLBACK == (NumPrimary + 1)..(NumPrimary + NumFallback)
SafeUrls == Urls1 \cup FEEDS_FALLBACK

eFallback == Entry(<<"meter">>, LinkQ, <<"news">>, Iso(8), Iso(8))

\* the feeds each URL may answer with (besides failing): fresh and stale entries,
\* entries in and out of the domain, entries without a usable date
SafeChoices ==
  << { Feed(<<"A">>, <<eDup, eNow>>), Feed(<<"A">>, <<eFlow>>) },
     { Feed(<<"B">>, <<eBadDate, eBit>>), Feed(<<"B">>, <<eDup>>) },
     { Feed(<<"C">>, <<eNow>>) } >>
FallbackChoices ==
  << { Feed(<<"D">>, <<eFallback>>) },
     { Feed(<<"E">>, <<eDup, eNews>>), Feed(<<"E">>, <<eFlow>>) } >>

SafeFeedsOf(u) ==
  IF u <= NumPrimary
  THEN IF u <= Len(SafeChoices) THEN SafeChoices[u] ELSE {Feed(<<"F">>, <<eFallback>>)}
  ELSE IF u - NumPrimary <= Len(FallbackChoices) THEN FallbackChoices[u - NumPrimary]
       ELSE {Feed(<<"G">>, <<eNow>>)}

\* urls1.slice(i, i + CONCURRENCY)   (fetch-news.mjs:339)
batch1(k) == {u \in Urls1 : k < u /\ u <= k + CONCURRENCY}

\* FEEDS_FALLBACK.slice(i, i + CONCURRENCY)   (fetch-news.mjs:348)
batchFb(k) == {u \in FEEDS_FALLBACK : k < u - NumPrimary /\ u - NumPrimary <= k + CONCURRENCY}

\* fetch-news.mjs:263: new Date(iso).getTime() >= Date.now() - days*864e5, which is
\* false when the date does not parse
withinDays(d, now) == ~IsNaN(d) /\ d.t >= now - FRESH_DAYS

\* itemsFromFeeds(...).filter(i => withinDays(i.publishedAt, FRESH_DAYS))
\* (fetch-news.mjs:343, :351)
freshItems(fs, now) ==
  SelectSeq(itemsFromFeedsSafe(fs, now), LAMBDA it : withinDays(it.publishedAt, now))

\* a sweep that is always followed by the fallback sweep
isLightAlways(n) == TRUE

\* fetch-news.mjs:346: if (items.length < 10)
isLight(n) == n < LightBelow

\* JSON.stringify({ updatedAt, items }, null, 2)   (fetch-news.mjs:378-380)
stringifySafe(p) ==
  <<[c |-> "open"], [c |-> "updatedAt", v |-> p.updatedAt]>>
  \o [k \in 1..Len(p.items) |-> [c |-> "item", v |-> p.items[k]]]
  \o <<[c |-> "close"]>>

\* the items of a complete safe-mode record
itemsOfSafeJSON(data) == [k \in 1..(Len(data) - 3) |-> data[k + 2].v]

\* main() has been called and collectAll is at its first loop test
InitSafe ==
  /\ pc = "loop1"
  /\ run = 1
  /\ i = 0
  /\ req = [u \in SafeUrls |-> "idle"]
  /\ res = [u \in SafeUrls |-> Unsettled]
  /\ order = <<>>
  /\ feeds = <<>>
  /\ sent = [u \in SafeUrls |-> 0]
  /\ ranked = <<>>
  /\ items = <<>>
  /\ yielded = 0
  /\ payload = <<>>
  /\ outFile \in {Absent, [exists |-> TRUE, data |-> stringifySafe([updatedAt |-> Now(0), items |-> <<>>])]}
  /\ observed = "none"
  /\ prior = <<>>
  /\ exitCode = -1
  /\ logged = "none"
  /\ InitPage("plain", "none")
  /\ arg = NoArg
  /\ ret = NoRet

safeRest == <<run, rankVars, outFile, prior, envVars, exitVars>>

\* fetch-news.mjs:338-340: the loop test, the slice, and urls.map(parseURL)
IssuePrimary ==
  /\ pc = "loop1"
  /\ i < NumPrimary
  /\ req' = [u \in SafeUrls |-> IF u \in batch1(i) THEN "inflight" ELSE req[u]]
  /\ sent' = [u \in SafeUrls |-> IF u \in batch1(i) THEN sent[u] + 1 ELSE sent[u]]
  /\ pc' = "await1"
  /\ UNCHANGED <<i, res, order, feeds, safeRest>>

\* one request settles, with a feed or with a rejection
SafeSettle(u) ==
  /\ req[u] = "inflight"
  /\ \/ \E f \in SafeFeedsOf(u) : res' = [res EXCEPT ![u] = f] /\ req' = [req EXCEPT ![u] = "ok"]
     \/ res' = [res EXCEPT ![u] = Rejected] /\ req' = [req EXCEPT ![u] = "failed"]
  /\ order' = Append(order, u)
  /\ UNCHANGED <<pc, i, feeds, sent, safeRest>>

\* fetch-news.mjs:340-341: await parseBatch(batch) resumes; allFeeds.push(...feeds)
PrimaryBatchDone ==
  /\ pc = "await1"
  /\ allSettled(batch1(i), req)
  /\ feeds' = feeds \o parseBatch(batch1(i), res, order).got
  /\ i' = i + CONCURRENCY
  /\ order' = <<>>
  /\ pc' = "loop1"
  /\ UNCHANGED <<req, res, sent, safeRest>>

\* fetch-news.mjs:343-346: the primary loop is over; the fresh items of allFeeds, and
\* the test for the fallback sweep.  allFeeds is dead from here on: `feeds` then
\* holds allFb.
TestLight ==
  /\ pc = "loop1"
  /\ i >= NumPrimary
  /\ items' = freshItems(feeds, Now(run))
  /\ yielded' = Len(items')
  /\ feeds' = <<>>
  /\ i' = 0
  /\ pc' = IF isLight(Len(items')) THEN "loop2" ELSE "collected"
  /\ UNCHANGED <<run, req, res, order, sent, ranked, payload, outFile, prior, envVars,
                 exitVars>>

\* fetch-news.mjs:348-349
IssueFallback ==
  /\ pc = "loop2"
  /\ i < NumFallback
  /\ req' = [u \in SafeUrls |-> IF u \in batchFb(i) THEN "inflight" ELSE req[u]]
  /\ sent' = [u \in SafeUrls |-> IF u \in batchFb(i) THEN sent[u] + 1 ELSE sent[u]]
  /\ pc' = "await2"
  /\ UNCHANGED <<i, res, order, feeds, safeRest>>

\* fetch-news.mjs:349-350
FallbackBatchDone ==
  /\ pc = "await2"
  /\ allSettled(batchFb(i), req)
  /\ feeds' = feeds \o parseBatch(batchFb(i), res, order).got
  /\ i' = i + CONCURRENCY
  /\ order' = <<>>
  /\ pc' = "loop2"
  /\ UNCHANGED <<req, res, sent, safeRest>>

\* fetch-news.mjs:351-353: the fresh items of allFb are pushed onto items
AppendFallback ==
  /\ pc = "loop2"
  /\ i >= NumFallback
  /\ items' = items \o freshItems(feeds, Now(run))
  /\ pc' = "collected"
  /\ UNCHANGED <<run, fetchVars, ranked, yielded, payload, outFile, prior, envVars,
                 exitVars>>

\* fetch-news.mjs:375-378: collectAll has returned; dedupeSortCap and the payload
SafeRank ==
  /\ pc = "collected"
  /\ \E srt \in sortOutcomes(dedupe(items)) :
       /\ ranked' = srt
       /\ items' = stripScore(cap(srt))
       /\ payload' = stringifySafe([updatedAt |-> Now(run), items |-> stripScore(cap(srt))])
  /\ pc' = "mkdir"
  /\ UNCHANGED <<run, fetchVars, yielded, outFile, prior, envVars, exitVars>>

\* fetch-news.mjs:379
SafeMkdir ==
  /\ pc = "mkdir"
  /\ \/ pc' = "open" /\ UNCHANGED exitVars
     \/ Rejects("mkdir")
  /\ UNCHANGED <<run, fetchVars, rankVars, outFile, prior, envVars>>

\* the two writeFile calls of fetch-news.mjs:380-383 are those of the curated main
NextSafe ==
  \/ IssuePrimary
  \/ \E u \in SafeUrls : SafeSettle(u)
  \/ PrimaryBatchDone
  \/ TestLight
  \/ IssueFallback
  \/ FallbackBatchDone
  \/ AppendFallback
  \/ SafeRank
  \/ SafeMkdir
  \/ WriteOpen
  \/ WriteData
  \/ WriteFail
  \/ WriteDebug

SpecSafe == InitSafe /\ [][NextSafe]_vars

-----------------------------------------------------------------------------
(* The batched strict revision: feeds and collect, src/unnamed/part_000:53-124 *)

\* EDITIONS.length * QUERIES.length, the URLs feeds() returns (70 in the source; scaled)
NumStrict == 4

\* part_000:53-57: the array a call of feeds() returns, one URL per edition and query
feedsResult == 1..NumStrict

\* part_000:94: `const urls = feeds` binds urls to the function feeds, not to the
\* array a call would return; the length of a function is the number of parameters
\* it declares (part_000:53)
urlsLength == 0

\* part_000:80-81
measurement ==
  BAll({ <<"flow", " ", "meter">>, <<"flowmeter">>, <<"meter">>, <<"metering">>,
         <<"prover">>, <<"lact">>,
         <<"metering", " ", "skid">>, <<"metering", " ", "station">> })
  \cup
  UAll({ <<"meter", " ", "proving">>, <<"pipe", " ", "prover">>,
         <<"lease", " ", "automatic", " ", "custody", " ", "transfer">>,
         <<"ultrasonic", " ", "meter">>, <<"ultrasonic", " ", "measurement">>,
         <<"coriolis", " ", "meter">>, <<"coriolis", " ", "measurement">>,
         <<"calibration", " ", "lab">>, <<"metrology">> })

\* part_000:83-84
context ==
  BAll({ <<"custody", " ", "transfer">>, <<"fiscal">>, <<"mpms">>,
         <<"iso17025">>, <<"iso", WS, "17025">>,
         <<"lng">>, <<"oil">>, <<"gas">>, <<"terminal">>, <<"pipeline">> })
  \cup UAll({ <<"oiml">>, <<"r-117">>, <<"r117">> })

\* part_000:77-90 (the lexicon `bad` of part_000:86-87 is that of RX_BAD)
isCustodyMeteringRelated(title, summary) ==
  LET t == JoinedText(title, summary)
  IN  ~Test(RX_BAD, t) /\ Test(measurement, t) /\ Test(context, t)

\* part_000:97-110: the items toItem makes of the entries of one feed
RECURSIVE toItems(_, _, _)
toItems(feed, its, now) ==
  IF its = <<>> THEN <<>>
  ELSE LET it == [Head(its) EXCEPT !.link = unwrapGoogle(@)]
       IN  (IF isCustodyMeteringRelated(it.title, sumOf(it))
            THEN stripScore(<<itemOf(feed, it, now, 0)>>)
            ELSE <<>>)
           \o toItems(feed, Tail(its), now)

\* part_000:93-124.  The loop test is i < urls.length with i = 0; were the body
\* entered, urls.slice, which a function does not have, would throw a TypeError
\* at part_000:113.
collect(answers, now) ==
  IF 0 < urlsLength
  THEN [threw |-> TRUE, asked |-> {}, out |-> <<>>]
  ELSE [threw |-> FALSE, asked |-> {}, out |-> <<>>]

eFiscal == Entry(<<"fiscal", " ", "meter">>, LinkA, <<"news">>, Iso(9), Iso(9))

\* what a URL would answer with: a rejection, a feed with a qualifying entry, a feed
\* without one
StrictAnswers == {Rejected, Feed(<<"A">>, <<eFiscal, eNews>>), Feed(<<"B">>, <<eFlow>>)}

InitStrict ==
  /\ InitPipeline
  /\ arg \in {[answers |-> a] : a \in [feedsResult -> StrictAnswers]}
  /\ ret = NoRet

\* part_000:140: main calls collect
ApplyCollect ==
  /\ ret.fn = "none"
  /\ ret' = [fn |-> "collect"] @@ collect(arg.answers, Now(1))
  /\ UNCHANGED <<pipeVars, arg>>

NextStrict == ApplyCollect

SpecStrict == InitStrict /\ [][NextStrict]_vars

-----------------------------------------------------------------------------
(* The widget: public/news-modal.js, lines 1-307 *)

\* longest published list the widget is served
MaxPublished == 32
\* most callbacks of one kind (hide timers, animation frames) pending at a time
MaxPending == 2

Max(a, b) == IF a >= b THEN a ELSE b

\* Array.prototype.slice(a, b) with 0 <= a, in 0-based positions
sliceFrom(s, a, b) == SubSeq(s, a + 1, Min(b, Len(s)))

\* the record served at CFG.endpoint: n stories, named by their position in the
\* published order (a record may also lack the items member)
PublishedRecords ==
  {[hasItems |-> TRUE, items |-> [k \in 1..n |-> k]] : n \in 0..MaxPublished}
    \cup {[hasItems |-> FALSE, items |-> <<>>]}

\* news-modal.js:258: json.items || []
itemsField(json) == IF json.hasItems THEN json.items ELSE <<>>

\* a list that shows every story of state.items whatever state.visibleCount is
renderListAll(st, el) ==
  IF ~el.hasList THEN el
  ELSE [el EXCEPT !.list = sliceFrom(st.items, 1, Len(st.items)),
                  !.btnMoreDisabled = TRUE]

\* news-modal.js:207-222
renderList(st, el) ==
  IF ~el.hasList THEN el
  ELSE LET limit == Min(ShowCap, Min(st.visibleCount, Len(st.items)))
       IN  [el EXCEPT !.list = sliceFrom(st.items, 1, limit),
                      !.btnMoreDisabled = limit >= Min(ShowCap, Len(st.items))]

\* a render that leaves Load more as it is when there is nothing to show
renderKeepButton(its, st, el) ==
  IF Len(its) = 0
  THEN [el EXCEPT !.body = "empty"]
  ELSE renderList(st, [el EXCEPT !.body = "stories", !.top = its[1],
                                 !.hasList = TRUE, !.list = <<>>])

\* news-modal.js:145-205.  With nothing to show the message is put in the body and
\* els.list is left as it was.
render(its, st, el) ==
  IF Len(its) = 0
  THEN [el EXCEPT !.body = "empty", !.btnMoreDisabled = TRUE]
  ELSE renderList(st, [el EXCEPT !.body = "stories", !.top = its[1],
                                 !.hasList = TRUE, !.list = <<>>])

\* news-modal.js:254-269: ok is whether fetch and res.json() both fulfilled
fetchItems(ok, json, st, el) ==
  IF ok
  THEN LET its == slice(itemsField(json), ShowCap)
           st1 == [st EXCEPT !.items = its,
                             !.visibleCount = Max(InitialVisible, st.visibleCount)]
       IN  [state |-> st1, els |-> render(its, st1, el)]
  ELSE LET st1 == [st EXCEPT !.items = <<>>]
       IN  [state |-> st1, els |-> render(<<>>, st1, el)]

\* a gate that looks at the stories only
shouldAutoShowAnyway(store, st) == Len(st.items) > 0

\* news-modal.js:271-279 (CFG.requireFreshForAutoShow is false, news-modal.js:9)
shouldAutoShow(store, st) ==
  IF store = "future" THEN FALSE ELSE Len(st.items) > 0

\* news-modal.js:298
forceOpen(href) == href \in {"?news=1", "#news"}

\* news-modal.js:225-234: the effect of open(manual)
open(manual) ==
  /\ timers.raf < MaxPending
  /\ state' = [state EXCEPT !.openedManually = manual]
  /\ els' = [els EXCEPT !.hidden = FALSE]
  /\ timers' = [timers EXCEPT !.raf = @ + 1]

\* news-modal.js:282-294: DOMContentLoaded; buildModal, the hook, the call of fetchItems
DOMContentLoaded ==
  /\ page.phase = "loading"
  /\ els' = [els EXCEPT !.built = TRUE]
  /\ page' = [page EXCEPT !.phase = "fetching"]
  /\ UNCHANGED <<mainVars, observed, arg, ret, state, timers, storage>>

\* news-modal.js:254-269 and :294-305: the fetch settles, fetchItems renders, and the
\* DOMContentLoaded handler goes on to force-open or to schedule the auto-show timer
FetchSettle ==
  /\ page.phase = "fetching"
  /\ \E ok \in BOOLEAN :
       LET r == fetchItems(ok, arg, state, els)
       IN  /\ page' = [page EXCEPT !.phase = "ready",
                         !.fetched = IF ok THEN "ok" ELSE "failed",
                         !.lastCall = IF forceOpen(page.href) THEN "open" ELSE @]
           /\ IF forceOpen(page.href)
              THEN /\ timers.raf < MaxPending
                   /\ state' = [r.state EXCEPT !.openedManually = TRUE]
                   /\ els' = [r.els EXCEPT !.hidden = FALSE]
                   /\ timers' = [timers EXCEPT !.raf = @ + 1]
              ELSE /\ state' = r.state
                   /\ els' = r.els
                   /\ timers' = [timers EXCEPT !.auto = TRUE]
  /\ UNCHANGED <<mainVars, observed, arg, ret, storage>>

\* news-modal.js:303-305: the auto-show timer fires
AutoTimer ==
  /\ timers.auto
  /\ IF shouldAutoShow(storage, state)
     THEN /\ timers.raf < MaxPending
          /\ state' = [state EXCEPT !.openedManually = FALSE]
          /\ els' = [els EXCEPT !.hidden = FALSE]
          /\ timers' = [timers EXCEPT !.raf = @ + 1, !.auto = FALSE]
          /\ page' = [page EXCEPT !.lastCall = "open", !.autoOpens = @ + 1]
     ELSE /\ timers' = [timers EXCEPT !.auto = FALSE]
          /\ UNCHANGED <<state, els, page>>
  /\ UNCHANGED <<mainVars, observed, arg, ret, storage>>

\* news-modal.js:248-250 and :288-291: the header link, or AlNewsModal.open()
ManualOpen ==
  /\ els.built
  /\ open(TRUE)
  /\ page' = [page EXCEPT !.lastCall = "open"]
  /\ UNCHANGED <<mainVars, observed, arg, ret, storage>>

\* news-modal.js:236-245: close(), from a close button, the backdrop, Escape or the API
Close ==
  /\ els.built
  /\ page' = [page EXCEPT !.lastCall = "close"]
  /\ IF els.hidden
     THEN UNCHANGED <<els, timers>>
     ELSE /\ timers.hide < MaxPending
          /\ els' = [els EXCEPT !.isOpen = FALSE]
          /\ timers' = [timers EXCEPT !.hide = @ + 1]
  /\ UNCHANGED <<mainVars, observed, arg, ret, state, storage>>

\* news-modal.js:241-244: a hide timer of close() fires
HideTimer ==
  /\ timers.hide > 0
  /\ timers' = [timers EXCEPT !.hide = @ - 1]
  /\ els' = [els EXCEPT !.hidden = TRUE]
  /\ UNCHANGED <<mainVars, observed, arg, ret, state, storage, page>>

\* news-modal.js:230-233: an animation-frame callback of open() runs
AnimationFrame ==
  /\ timers.raf > 0
  /\ timers' = [timers EXCEPT !.raf = @ - 1]
  /\ els' = [els EXCEPT !.isOpen = TRUE]
  /\ UNCHANGED <<mainVars, observed, arg, ret, state, storage, page>>

\* news-modal.js:120-125: a click on Load more (the button is in the modal and
\* a disabled button fires no click)
LoadMore ==
  /\ els.built /\ ~els.hidden /\ ~els.btnMoreDisabled
  /\ LET st1 == [state EXCEPT !.visibleCount = Min(ShowCap, @ + MoreStep)]
         el1 == renderList(st1, els)
     IN  /\ state' = st1
         /\ els' = IF st1.visibleCount >= Min(ShowCap, Len(st1.items))
                   THEN [el1 EXCEPT !.btnMoreDisabled = TRUE]
                   ELSE el1
  /\ UNCHANGED <<mainVars, observed, arg, ret, timers, storage, page>>

\* news-modal.js:109-116: the user toggles the "Don't show again this week" checkbox
SnoozeChange ==
  /\ els.built /\ ~els.hidden
  /\ els' = [els EXCEPT !.snoozeChecked = ~@]
  /\ storage' = IF ~els.snoozeChecked THEN "future" ELSE "none"
  /\ UNCHANGED <<mainVars, observed, arg, ret, state, timers, page>>

\* time passes beyond the stored snooze-until timestamp
SnoozeExpires ==
  /\ storage = "future"
  /\ storage' = "past"
  /\ UNCHANGED <<mainVars, observed, arg, ret, state, els, timers, page>>

InitWidget ==
  /\ InitMain
  /\ \E h \in {"plain", "?news=1", "#news"}, s \in {"none", "past", "future"} :
       InitPage(h, s)
  /\ arg \in PublishedRecords
  /\ ret = NoRet

NextWidget ==
  \/ DOMContentLoaded
  \/ FetchSettle
  \/ AutoTimer
  \/ ManualOpen
  \/ Close
  \/ HideTimer
  \/ AnimationFrame
  \/ LoadMore
  \/ SnoozeChange
  \/ SnoozeExpires

SpecWidget == InitWidget /\ [][NextWidget]_vars

-----------------------------------------------------------------------------
(* Properties *)

\* the items of the record a reader of OUT_FILE gets (none while there is no complete record)
published == readPreviousItems(outFile)

\* the list dedupeSortCap returns (fetch-news.mjs:101)
returned == stripScore(cap(ranked))

\* the candidate list handed to dedupeSortCap (fetch-news.mjs:120)
candidates == itemsFromFeeds(feeds, Now(run))

fetchDone == (pc = "loop" /\ i >= NumEndpoints) \/ pc = "mkdir"

C2_FilterOnPublishedText ==
  \A k \in 1..Len(published) :
    LET t == JoinedText(published[k].title, published[k].summary)
    IN  Test(RX_KEEP, t) /\ ~Test(RX_DROP, t)

\* an entry the feeds deliver that passes the filter on its full text and from which
\* the published item it was built
builtFromKept(it, e) ==
  /\ e.title = it.title
  /\ e.link = it.url
  /\ slice(sumOf(e), SUMMARY_CAP) = it.summary
  /\ Test(RX_KEEP, JoinedText(e.title, sumOf(e)))
  /\ ~Test(RX_DROP, JoinedText(e.title, sumOf(e)))

\* C2, amended: every published item was built from a feed entry whose title + full
\* whitespace-collapsed summary (before the truncation of fetch-news.mjs:73) matches
\* RX_KEEP and does not match RX_DROP.
C2_FilterOnFullText ==
  \A k \in 1..Len(published) : \E e \in SampleEntries : builtFromKept(published[k], e)

\* a published item whose own (truncated) text no longer matches RX_KEEP
C2_Witness ==
  \E k \in 1..Len(published) :
    /\ ~Test(RX_KEEP, JoinedText(published[k].title, published[k].summary))
    /\ \E e \in SampleEntries : builtFromKept(published[k], e)

\* the text both scorers test: title + " " + summary, the summary whitespace-collapsed
argText == JoinedText(arg.title, trim(collapse(arg.contentSnippet)))
\* the same with the snippet as delivered
argRawText == toLowerCase(arg.title \o <<" ">> \o arg.contentSnippet)

\* C3 (exclusion precedence): an entry whose title + summary matches the exclusion
\* lexicon yields no candidate, in the curated scorer and in the safe-mode scorer,
\* whatever else it matches.
C3_ExclusionPrecedence ==
  (ret.fn \in {"curated", "safe"} /\ (Test(RX_DROP, argText) \/ Test(RX_DROP, argRawText)))
    => ret.out = <<>>

C3_Witness ==
  /\ ret.fn = "curated"
  /\ Test(RX_DROP, argText)
  /\ Test(RX_KEEP, argText)
  /\ Test(RX_BOOST_STD, argText)
  /\ ret.out = <<>>

\* C4 (dedup invariant): any two distinct items of the list dedupeSortCap returns have
\* different dedup keys.
C4_DedupKeysDistinct ==
  \A a, b \in 1..Len(returned) : a # b => keyOf(returned[a]) # keyOf(returned[b])

\* the candidates held two items with one key, and the returned list holds one of them
C4_Witness ==
  /\ pc = "mkdir"
  /\ \E a, b \in 1..Len(candidates) :
       /\ a < b
       /\ candidates[a].title # <<>>
       /\ keyOf(candidates[a]) = keyOf(candidates[b])
       /\ candidates[a].title # candidates[b].title
       /\ \E k \in 1..Len(returned) : returned[k].title = candidates[a].title

\* timestamp(a) >= timestamp(b), both being instants
tsGeq(a, b) ==
  /\ ~IsNaN(a.publishedAt)
  /\ ~IsNaN(b.publishedAt)
  /\ a.publishedAt.t >= b.publishedAt.t

\* C5 (ordering invariant), as the claim states it: every adjacent pair (a, b) of the
\* returned list has score(a) >= score(b) and, the scores being equal,
\* timestamp(a) >= timestamp(b).
C5_Ordering ==
  \A k \in 1..(Len(cap(ranked)) - 1) :
    LET a == cap(ranked)[k]
        b == cap(ranked)[k + 1]
    IN  /\ a._score >= b._score
        /\ a._score = b._score => tsGeq(a, b)

\* C6 (cap invariant): the record in OUT_FILE never has more than MAX_ITEMS items, in
\* any sequence of runs, runs that fall back to the previous items included.
C6_Cap == Len(published) <= MAX_ITEMS /\ Len(items) <= MAX_ITEMS

\* a run that fell back to the previous items re-published a full list
C6_Witness ==
  /\ pc = "done"
  /\ yielded = 0
  /\ Len(published) = MAX_ITEMS
  /\ published = prior

\* C7 (fetch failure isolation): whatever subset of endpoints fails, the run is not
\* aborted in its fetch phase, and at the end of the fetch phase the accumulator holds
\* the feed of every endpoint that succeeded and nothing for those that failed.
C7_FailureIsolation ==
  /\ pc # "aborted"
  /\ fetchDone =>
       /\ \A e \in Endpoints : req[e] \in {"ok", "failed"}
       /\ \A e \in Endpoints : req[e] = "ok" => \E k \in 1..Len(feeds) : feeds[k] = res[e]
       /\ Len(feeds) = Cardinality({e \in Endpoints : req[e] = "ok"})
       /\ \A k \in 1..Len(feeds) : ~feeds[k].rejected

\* a batch with one failed and one succeeded request, the run past its fetch phase
C7_Witness ==
  /\ pc = "loop"
  /\ i >= NumEndpoints
  /\ \E e1, e2 \in batchAt(0) : req[e1] = "failed" /\ req[e2] = "ok"
  /\ feeds # <<>>

\* C8 (atomic publish), as the claim states it: a reader never gets a partially
\* written record.
C8_AtomicPublish == observed # "torn"

batchIndex(e) == (e - 1) \div CONCURRENCY

\* C9 (bounded sequential batches): at most CONCURRENCY requests are in flight, and a
\* request of a later batch is issued only when every request of the earlier batches
\* has settled.
C9_BoundedSequentialBatches ==
  /\ Cardinality({e \in Endpoints : req[e] = "inflight"}) <= CONCURRENCY
  /\ \A e1, e2 \in Endpoints :
       (batchIndex(e1) < batchIndex(e2) /\ req[e2] # "idle") => req[e1] \in {"ok", "failed"}

\* a full first batch has settled and a request of the second batch is in flight
C9_Witness ==
  /\ \E e \in Endpoints : batchIndex(e) = 1 /\ req[e] = "inflight"
  /\ Cardinality({e \in Endpoints : batchIndex(e) = 0 /\ req[e] \in {"ok", "failed"}})
       = CONCURRENCY

\* the fulfilled feeds of the endpoints 1..k, in endpoint order
fulfilledUpTo(k) ==
  SelectSeq([e \in 1..Min(k, NumEndpoints) |-> res[e]], LAMBDA f : ~f.rejected)

\* C10 (accumulator): the accumulator holds exactly the fulfilled feeds of the batches
\* that have completed, in endpoint order; it does not change while requests of the
\* current batch are in flight, and the order in which they settle does not show.
C10_AccumulatorOrder ==
  (pc \in {"loop", "await", "mkdir"}) => feeds = fulfilledUpTo(i)

\* two requests of a batch settled in reverse endpoint order and both feeds were merged
C10_Witness ==
  /\ pc = "loop"
  /\ Len(order) >= 2
  /\ order[1] > order[2]
  /\ req[order[1]] = "ok"
  /\ req[order[2]] = "ok"
  /\ Len(feeds) >= 2

\* an invocation that has started and not yet exited
running == pc \in {"loop", "await", "mkdir", "open", "write", "debug"}

\* C11 (run termination): every request settling, each invocation that has started
\* eventually reaches its end: it has exited with status 0 and the record it built is
\* in OUT_FILE, or it has exited with a failure.
C11_RunTerminates ==
  running ~> \/ (pc = "done" /\ exitCode = 0 /\ outFile.data = payload)
             \/ (pc = "failed" /\ exitCode = 1)

\* the last invocation ended normally after a fetch phase that kept nothing
C11_Witness ==
  /\ run = MaxRuns
  /\ pc = "done"
  /\ exitCode = 0
  /\ yielded = 0
  /\ outFile.data = payload

\* the failure half of C12: an invocation that failed to create the directory or to
\* write has exited with status 1 after logging the error, and an invocation exits
\* with status 0 only with its whole record in OUT_FILE and nothing logged
failureSignalled ==
  /\ pc = "failed" => (exitCode = 1 /\ logged \in {"mkdir", "open", "write", "debug"})
  /\ pc = "done" => (exitCode = 0 /\ logged = "none" /\ outFile.exists /\ outFile.data = payload)
  /\ exitCode = 0 => pc = "done"

\* C12, as the claim states it: failures are signalled, and a run that yields zero
\* items and whose writes succeed ends normally with an items array of length 0.
C12_FailureSignalAsStated ==
  /\ failureSignalled
  /\ (pc = "done" /\ yielded = 0) => Len(published) = 0

\* C12, amended: failures are signalled, and a run that yields zero items and whose
\* writes succeed ends normally; its record holds the items of the record found at
\* its start, so an items array of length 0 only when that had none.
C12_FailureSignal ==
  /\ failureSignalled
  /\ (pc = "done" /\ yielded = 0) => published = prior

\* a zero-item run ended normally with an empty items array, no earlier record having items
C12_Witness ==
  /\ pc = "done"
  /\ exitCode = 0
  /\ yielded = 0
  /\ prior = <<>>
  /\ JSONparses(outFile.data)
  /\ Len(published) = 0
  /\ run > 1

\* C13 (idempotence), as the claim states it: two runs of itemsFromFeeds and
\* dedupeSortCap on the same fetched feeds give the same items list, in order and in
\* every field.
C13_Idempotent == ret.fn = "second" => ret.out2 = ret.out

\* the inclusion lexicon of the scorer that was applied
included(fn, t) == IF fn = "safe" THEN Test(RX_MEAS, t) ELSE Test(RX_KEEP, t)

\* the score the scorer that was applied gives a kept text apart from the de-rank test
\* (fetch-news.mjs:46-50 without :47, and :291-296)
scoreApartFromDeRank(fn, t) ==
  IF fn = "safe"
  THEN (IF Test(RX_CTX_STRONG, t) THEN 6 ELSE 0) + (IF Test(RX_CTX_WEAK, t) THEN 3 ELSE 0)
       + (IF Test(RX_SAFE_CUSTODY, t) THEN 2 ELSE 0)
       + (IF Test(RX_SAFE_PROVING, t) THEN 2 ELSE 0)
       + (IF Test(RX_BOOST_TECH, t) THEN 1 ELSE 0)
  ELSE 1 + (IF Test(RX_BOOST_STD, t) THEN 4 ELSE 0)
         + (IF Test(RX_BOOST_PROVING, t) THEN 2 ELSE 0)
         + (IF Test(RX_BOOST_TECH, t) THEN 1 ELSE 0)

\* C14 (de-rank without drop), as the claim states it: an entry whose text matches the
\* inclusion lexicon, not the exclusion lexicon, and the de-rank lexicon is kept as a
\* candidate, with a score lower than it would have without the de-rank match.
C14_DeRankKept ==
  ( /\ ret.fn \in {"curated", "safe"}
    /\ included(ret.fn, argText)
    /\ ~Test(RX_DROP, argText)
    /\ Test(RX_UTILITY, argText) )
  => /\ Len(ret.out) = 1
     /\ ret.out[1]._score < scoreApartFromDeRank(ret.fn, argText)

\* the boosts of scoreText that are not context tests (fetch-news.mjs:294-296)
safeBoosts(t) ==
  (IF Test(RX_SAFE_CUSTODY, t) THEN 2 ELSE 0) + (IF Test(RX_SAFE_PROVING, t) THEN 2 ELSE 0)
  + (IF Test(RX_BOOST_TECH, t) THEN 1 ELSE 0)

hasContext(t) == Test(RX_CTX_STRONG, t) \/ Test(RX_CTX_WEAK, t)

\* C15 (permissive context policy): in the safe-mode scorer an entry that matches the
\* inclusion lexicon and neither the exclusion nor the de-rank lexicon is kept whether
\* or not it matches a context term; a context match only raises its score.
C15_PermissiveContext ==
  ( /\ ret.fn = "safe"
    /\ Test(RX_MEAS, argText)
    /\ ~Test(RX_BAD, argText)
    /\ ~Test(RX_BAD_UTILITY, argText) )
  => /\ Len(ret.out) = 1
     /\ ret.out[1]._score >= MIN_SCORE
     /\ IF hasContext(argText) THEN ret.out[1]._score > safeBoosts(argText)
                               ELSE ret.out[1]._score = safeBoosts(argText)

\* an entry with no context term was kept, with score 0
C15_Witness ==
  /\ ret.fn = "safe"
  /\ Test(RX_MEAS, argText)
  /\ ~Test(RX_BAD, argText)
  /\ ~Test(RX_BAD_UTILITY, argText)
  /\ ~hasContext(argText)
  /\ Len(ret.out) = 1
  /\ ret.out[1]._score = 0

\* a link that parses and carries a url query parameter, and what the parameter holds
isWrapper(link) == URLParses(link) /\ UrlParamAt(link) > 0
destination(link) == SubSeq(link, UrlParamAt(link) + 1, Len(link))

\* C16 (redirect unwrap), as the claim states it: the item built from an entry whose
\* link is a redirect wrapper has the destination as its url and the destination's
\* host as its source.
C16_RedirectUnwrapped ==
  (ret.fn \in {"linkCurated", "linkSafe"} /\ isWrapper(arg.link))
    => /\ ret.out[1].url = destination(arg.link)
       /\ hostOf(destination(arg.link)) # <<>>
            => ret.out[1].sourceName = hostOf(destination(arg.link))

\* C17 (malformed-URL fallback): for a link that does not parse as a URL, unwrapping
\* gives the link back unchanged, the derived host is empty, the item's sourceName is
\* the feed's title, or "News" when the feed has none, and the entry that follows is
\* processed as usual.
C17_MalformedFallback ==
  (ret.fn \in {"linkCurated", "linkSafe"} /\ ~URLParses(arg.link))
    => /\ unwrapGoogle(arg.link) = arg.link
       /\ hostOf(arg.link) = <<>>
       /\ Len(ret.out) = 2
       /\ ret.out[1].url = arg.link
       /\ ret.out[1].sourceName = (IF arg.feedTitle = NoTitle THEN <<"News">> ELSE arg.feedTitle)
       /\ ret.out[2].url = eFlow.link
       /\ ret.out[2].title = eFlow.title
       /\ ret.out[2].sourceName = <<"a.com">>

\* a wrapper without its scheme, in a feed without a title, went through the safe-mode
\* itemsFromFeeds
C17_Witness ==
  /\ ret.fn = "linkSafe"
  /\ ~URLParses(arg.link)
  /\ UrlParamAt(arg.link) > 0
  /\ arg.feedTitle = NoTitle
  /\ Len(ret.out) = 2
  /\ ret.out[1].url = arg.link
  /\ ret.out[1].sourceName = <<"News">>

\* a candidate dedupeSortCap lets through its first test (fetch-news.mjs:94)
wellFormedItem(it) == it.title # <<>> /\ it.url # <<>>

\* C18 (NewsItem invariant): every published item has a non-empty title and a non-empty
\* url; dedupeSortCap drops the candidates with an empty title or url, and what it
\* keeps is what it would keep had they not been among the candidates: each kept item
\* is a well-formed candidate, unaltered, and every key of a well-formed candidate is
\* kept exactly once.
C18_NewsItemInvariant ==
  /\ \A k \in 1..Len(published) : wellFormedItem(published[k])
  /\ \A k \in 1..Len(items) : wellFormedItem(items[k])
  /\ pc = "mkdir" =>
       LET good == SelectSeq(candidates, wellFormedItem)
       IN  /\ \A k \in 1..Len(ranked) : \E c \in 1..Len(good) : ranked[k] = good[c]
           /\ \A c \in 1..Len(good) : \E k \in 1..Len(ranked) : keyOf(ranked[k]) = keyOf(good[c])
           /\ Len(ranked) = Cardinality({keyOf(good[c]) : c \in 1..Len(good)})

\* candidates without a title and without a url were dropped and their siblings kept
C18_Witness ==
  /\ pc = "mkdir"
  /\ \E a, b \in 1..Len(candidates) : candidates[a].title = <<>> /\ candidates[b].url = <<>>
  /\ Len(returned) = MAX_ITEMS
  /\ \A k \in 1..Len(returned) : wellFormedItem(returned[k])

\* the categories and the keyword groups in the order of the source
Categories == {"Standards", "Technology", "Projects", "Research", "Update"}
CatOrder == <<"Standards", "Technology", "Projects", "Research">>
CatRx == <<RX_CAT_STANDARDS, RX_CAT_TECHNOLOGY, RX_CAT_PROJECTS, RX_CAT_RESEARCH>>

\* the groups the title of arg matches
matched == {g \in 1..Len(CatRx) : Test(CatRx[g], toLowerCase(arg.title))}

\* C19 (category assignment): guessCategory returns one of the five categories; it is
\* the first, in the order Standards, Technology, Projects, Research, of the groups the
\* title matches, and Update when the title matches none (the empty title included).
C19_CategoryFirstMatch ==
  ret.fn = "category" =>
    /\ ret.out \in Categories
    /\ matched = {} => ret.out = "Update"
    /\ matched # {} => ret.out = CatOrder[CHOOSE g \in matched : \A h \in matched : g <= h]
    /\ arg.title = <<>> => ret.out = "Update"

\* a title that names a Research keyword before a Standards keyword got Standards
C19_Witness ==
  /\ ret.fn = "category"
  /\ {1, 4} \subseteq matched
  /\ Test(RX_CAT_RESEARCH, <<arg.title[1]>>)
  /\ ret.out = "Standards"

\* a complete record text has updatedAt, items and meta; its meta counts its own items
\* and the configured endpoints
recordSound(data) ==
  /\ JSONparses(data)
  /\ data[2].c = "updatedAt"
  /\ data[2].v \in {Now(n) : n \in 1..run}
  /\ \A k \in 3..(Len(data) - 2) : data[k].c = "item"
  /\ data[Len(data) - 1].c = "meta"
  /\ data[Len(data) - 1].v.kept = Len(itemsOfJSON(data))
  /\ data[Len(data) - 1].v.feedsTried = NumEndpoints

\* C20 (record metadata): every record the curated main builds and writes has
\* updatedAt, items and meta, with meta.kept the length of the items list written
\* (also when the previous items were preserved) and meta.feedsTried the number of
\* configured endpoints, however many requests failed.
C20_RecordMetadata ==
  /\ payload # <<>> => (recordSound(payload) /\ itemsOfJSON(payload) = items)
  /\ (outFile.exists /\ outFile.data # <<>>) => recordSound(outFile.data)

\* a record with preserved items has been written
C20_Witness ==
  /\ pc = "done"
  /\ yielded = 0
  /\ prior # <<>>
  /\ outFile.data[Len(outFile.data) - 1].v = [feedsTried |-> NumEndpoints, kept |-> Len(prior)]
  /\ recordSound(outFile.data)


-----------------------------------------------------------------------------
(* Properties of the widget *)

\* the stories the modal displays: the top story, then the rows of the list
shown == IF els.body = "stories" THEN <<els.top>> \o els.list ELSE <<>>

\* the list served at the endpoint, in published order
publishedList == itemsField(arg)

\* C21: the stories the widget displays are always the first
\* min(30, visibleCount, items.length) stories of the published list, in published
\* order; a click on Load more raises visibleCount by 6, never beyond 30, and never
\* shortens what is shown.
C21_NoReRank ==
  /\ [](shown = SubSeq(publishedList, 1,
                       Min(ShowCap, Min(state.visibleCount, Len(state.items)))))
  /\ [][state'.visibleCount # state.visibleCount =>
          /\ state'.visibleCount = state.visibleCount + MoreStep
          /\ state'.visibleCount <= ShowCap
          /\ Len(shown') >= Len(shown)]_vars

\* Load more has been clicked up to the cap on a list longer than the cap
C21_Witness ==
  /\ Len(publishedList) > ShowCap
  /\ state.visibleCount = ShowCap
  /\ Len(shown) = ShowCap
  /\ shown[ShowCap] = ShowCap


\* the fetch has fulfilled with a record whose items array is empty
emptyFetched == page.fetched = "ok" /\ arg.hasItems /\ arg.items = <<>>

\* C22: once the widget has fetched a record whose items array is empty, it shows
\* its "no new items" message and no story, Load more is disabled, the fetch is not
\* taken as a failure, and a manual open is possible and makes the modal visible.
C22_EmptyIsLegitimate ==
  /\ [](emptyFetched =>
          /\ els.body = "empty" /\ shown = <<>>
          /\ els.btnMoreDisabled
          /\ (timers.raf < MaxPending => ENABLED ManualOpen))
  /\ [][emptyFetched /\ ManualOpen => ~els'.hidden /\ state'.openedManually]_vars

\* the empty record has been fetched and the modal was then opened by hand
C22_Witness ==
  /\ emptyFetched
  /\ page.href = "plain" /\ page.autoOpens = 0
  /\ ~els.hidden /\ els.isOpen /\ state.openedManually


\* the items a feed contributes to run n
elementsOf(s) == {s[k] : k \in 1..Len(s)}
contribution(f, n) == elementsOf(itemsFromFeeds(<<f>>, n))

\* C23 (no retry within a run): no endpoint is requested more than once in a run,
\* a failed request is never issued again in that run, and every feed merged and
\* every item ranked in the run comes from an endpoint whose one request succeeded.
C23_NoRetry ==
  /\ \A e \in Endpoints : sent[e] <= 1
  /\ \A e \in Endpoints : req[e] \in {"inflight", "ok", "failed"} => sent[e] = 1
  /\ \A k \in 1..Len(feeds) :
       \E e \in Endpoints : req[e] = "ok" /\ res[e] = feeds[k]
  /\ elementsOf(ranked) \subseteq
       UNION {contribution(res[e], Now(run)) : e \in {x \in Endpoints : req[x] = "ok"}}

\* the fetch phase of a later run is over: a request failed, the later batches went
\* out all the same, and the items of the endpoints that succeeded are ranked
C23_Witness ==
  /\ pc = "mkdir" /\ run > 1
  /\ \E e \in batchAt(0) : req[e] = "failed"
  /\ \A e \in Endpoints : sent[e] = 1
  /\ ranked # <<>>


\* raw[a] is the earliest candidate of the list with its key that has a title and a url
firstSeen(raw, a) ==
  /\ wellFormedItem(raw[a])
  /\ \A b \in 1..(a - 1) : wellFormedItem(raw[b]) => keyOf(raw[b]) # keyOf(raw[a])

\* C25 (first-seen wins): of the candidates that share a dedup key, the dedup loop
\* keeps the one that comes first in the candidate list and no other, whatever the
\* scores and timestamps of the later ones; every item dedupeSortCap returns is such
\* a first candidate.
C25_FirstSeenWins ==
  ret.fn = "dedupeSortCap" =>
    /\ \A a \in 1..Len(arg.raw) :
         firstSeen(arg.raw, a) =>
           /\ \E k \in 1..Len(ret.kept) : ret.kept[k] = arg.raw[a]
           /\ \A k \in 1..Len(ret.kept) :
                keyOf(ret.kept[k]) = keyOf(arg.raw[a]) => ret.kept[k] = arg.raw[a]
    /\ \A k \in 1..Len(ret.out) :
         \E a \in 1..Len(arg.raw) :
           firstSeen(arg.raw, a) /\ ret.out[k] = stripScore(<<arg.raw[a]>>)[1]

\* a later candidate with the key of an earlier one had the higher score and the newer
\* timestamp: the earlier one is returned, the later one is not
C25_Witness ==
  /\ ret.fn = "dedupeSortCap"
  /\ \E a, b \in 1..Len(arg.raw) :
       /\ a < b
       /\ firstSeen(arg.raw, a)
       /\ keyOf(arg.raw[b]) = keyOf(arg.raw[a])
       /\ arg.raw[b]._score > arg.raw[a]._score
       /\ arg.raw[b].publishedAt.t > arg.raw[a].publishedAt.t
       /\ \E k \in 1..Len(ret.out) : ret.out[k] = stripScore(<<arg.raw[a]>>)[1]
       /\ \A k \in 1..Len(ret.out) : ret.out[k] # stripScore(<<arg.raw[b]>>)[1]


-----------------------------------------------------------------------------
(* Properties of the safe-mode revision *)

\* the record the safe-mode run has written is complete
safeWritten == pc \in {"debug", "done"} /\ outFile.data = payload

\* C24 (safe-mode never ends empty): the record a safe-mode run writes has at least
\* one item.
C24_SafeNeverEmpty ==
  safeWritten => itemsOfSafeJSON(outFile.data) # <<>>

\* the fulfilled feeds of a set of URLs, in URL order
fulfilledOf(urls) == parseBatch(urls, res, <<>>).got

\* the primary sweep is over
primaryOver == pc \notin {"loop1", "await1"}

\* C26 (fallback sweep): a fallback feed is requested only after every primary request
\* has settled and only when the primary sweep gave fewer than LightBelow fresh
\* qualifying items; in that case every fallback feed is requested before collectAll
\* returns; and collectAll returns the fresh items of the primary feeds followed by
\* those of the fallback feeds.
C26_FallbackSweep ==
  /\ \A u \in FEEDS_FALLBACK : sent[u] <= 1
  /\ (\E u \in FEEDS_FALLBACK : sent[u] > 0) =>
       /\ primaryOver
       /\ \A v \in Urls1 : req[v] \in {"ok", "failed"}
       /\ yielded < LightBelow
  /\ primaryOver => yielded = Len(freshItems(fulfilledOf(Urls1), Now(run)))
  /\ pc = "collected" =>
       /\ yielded < LightBelow => \A u \in FEEDS_FALLBACK : sent[u] = 1 /\ req[u] \in {"ok", "failed"}
       /\ items = freshItems(fulfilledOf(Urls1), Now(run))
                    \o (IF yielded < LightBelow
                        THEN freshItems(fulfilledOf(FEEDS_FALLBACK), Now(run))
                        ELSE <<>>)

\* collectAll has returned after a fallback sweep that added items behind primary ones
C26_Witness ==
  /\ pc = "collected"
  /\ yielded = 1
  /\ Len(items) > 2
  /\ \A u \in FEEDS_FALLBACK : req[u] = "ok"


-----------------------------------------------------------------------------
(* Properties of the batched strict revision *)

\* the qualifying items of the URLs 1..k that answered with a feed, in URL order
RECURSIVE qualifyingUpTo(_, _, _)
qualifyingUpTo(k, answers, now) ==
  IF k = 0 THEN <<>>
  ELSE qualifyingUpTo(k - 1, answers, now)
       \o (IF answers[k].rejected THEN <<>> ELSE toItems(answers[k], answers[k].items, now))

\* C27 (feed coverage): collect requests every URL that feeds() produces and returns
\* the qualifying items of every URL that answered.
C27_FeedCoverage ==
  ret.fn = "collect" =>
    /\ ~ret.threw
    /\ ret.asked = feedsResult
    /\ ret.out = qualifyingUpTo(NumStrict, arg.answers, Now(1))


-----------------------------------------------------------------------------
(* Properties of the widget: opening and closing *)

\* C28 (auto-show gate): open(false) is called at most once per page load, only by
\* the auto-show timer, which is scheduled only once the fetch has settled and never
\* on a force-open URL, and only if, when the timer fires, no snooze-until instant in
\* the future is stored and state.items is not empty; a stored snooze does not keep
\* a manual open from showing the modal.
C28_AutoShowGate ==
  /\ [](/\ page.autoOpens <= 1
        /\ timers.auto => page.phase = "ready"
        /\ forceOpen(page.href) => ~timers.auto /\ page.autoOpens = 0
        /\ (storage = "future" /\ els.built /\ timers.raf < MaxPending)
             => ENABLED ManualOpen)
  /\ [][page'.autoOpens # page.autoOpens =>
          /\ page.phase = "ready"
          /\ timers.auto /\ ~timers'.auto
          /\ storage # "future"
          /\ Len(state.items) > 0
          /\ ~els'.hidden /\ ~state'.openedManually]_vars
  /\ [][storage = "future" /\ ManualOpen => ~els'.hidden /\ state'.openedManually]_vars

\* the modal was shown by the timer once an earlier snooze had run out, the user
\* snoozed it again, and later opened it by hand
C28_Witness ==
  /\ page.autoOpens = 1
  /\ storage = "future"
  /\ page.lastCall = "open"
  /\ state.openedManually
  /\ ~els.hidden /\ els.isOpen

\* C29 (open/close consistency): when the last of the calls of open() and close() is
\* an open() and no callback is pending any more, the modal and its backdrop are
\* visible.
C29_OpenAfterCloseVisible ==
  (page.lastCall = "open" /\ timers.hide = 0 /\ timers.raf = 0) => ~els.hidden

=============================================================================
